---- MODULE Spec2Model ----
(***************************************************************************)
(* The authenticated request pipeline of rainy-sdk: classification of      *)
(* transport failures and HTTP responses into RainyError (src/error.rs,    *)
(* src/client.rs), the retry loop (src/retry.rs) and the client operations *)
(* that drive them (src/client.rs, src/endpoints).                         *)
(*                                                                         *)
(* Conventions.  Option<T> is a sequence: None is <<>> and Some(x) is      *)
(* <<x>>.  Result<T> is a record with a boolean field ok.  Message strings *)
(* are kept as the template that builds them.                              *)
(***************************************************************************)
EXTENDS Integers, Sequences, FiniteSets, TLC

VARIABLES
    auth_config,    \* the client's AuthConfig; enable_retry and max_retries alone where no credential is read
    retry_config,   \* the client's RetryConfig; max_retries alone where no delay is computed
    rate_limiter,   \* RainyClient.rate_limiter: <<>> without the rate-limiting feature
    script,         \* what the transport answers to the i-th HTTP call of the operation
    op,             \* the client operation in progress, "none" before it
    pc,             \* the position of that operation
    attempt,        \* retry_with_backoff's loop variable
    last_error,     \* retry_with_backoff's last_error
    invocations,    \* how many times the wrapped operation has been invoked
    sleeps,         \* how many backoff sleeps have completed
    acquired,       \* how many times the rate limiter has been awaited
    result,         \* what the operation returned: <<>> until it returns
    response,       \* the response handed to handle_response (classification runs)
    classified,     \* the results handle_response gave for it, in order
    mode,           \* which specification governs the behaviour
    delay_run,      \* RetryConfig::delay_for_attempt: the calls made, each its attempt, the factor drawn and the delay returned
    limiter,        \* auth::RateLimiter: requests_per_minute, last_request, request_count
    clock,          \* Instant::now(), in seconds since the limiter was made
    acq,            \* RateLimiter::wait_if_needed: the call in progress or last made
    sse,            \* the chat stream: the transport's SSE items, how many were consumed, the items yielded
    sleeping_for,   \* the delay of the backoff sleep in progress, <<>> outside a sleep
    in_flight,      \* the invocations of the wrapped operation that have started and not returned
    classified_by   \* the client that made each classification, in order

vars == <<auth_config, retry_config, rate_limiter, script, op, pc, attempt,
          last_error, invocations, sleeps, acquired, result, response,
          classified, mode, delay_run, limiter, clock, acq, sse, sleeping_for,
          in_flight, classified_by>>

\* the state of the components that run apart from a client
standalone == <<delay_run, limiter, clock, acq>>

(***************************************************************************)
(* Bounds of the model.                                                    *)
(***************************************************************************)
\* the largest retry budget a configuration holds
MaxRetries == 2
\* the largest small attempt number a run of delay_for_attempt starts from
MaxAttempt == 6
\* how many consecutive attempt numbers one run asks the delay of
MaxDelayCalls == 2
\* the largest requests_per_minute a fixed-window limiter is made with
MaxRpm == 2
\* how many calls of wait_if_needed one limiter sees
MaxCalls == 4
\* the second past which no caller waits before its next call
MaxClock == 130
\* how many times one response is classified
MaxClassify == 2

None == <<>>
Some(x) == <<x>>
Ok(v) == [ok |-> TRUE, value |-> v]
Err(e) == [ok |-> FALSE, error |-> e]

(***************************************************************************)
(* JSON values met in an error document's details.                         *)
(***************************************************************************)
JAbsent == [json |-> "absent", s |-> "", n |-> 0]
JStr(x) == [json |-> "string", s |-> x, n |-> 0]
JNum(k) == [json |-> "number", s |-> "", n |-> k]

\* serde_json::Value::as_u64
as_u64(v) == IF v.json = "number" /\ v.n >= 0 THEN Some(v.n) ELSE None
\* serde_json::Value::as_str
as_str(v) == IF v.json = "string" THEN Some(v.s) ELSE None
\* serde_json::Value::as_f64
as_f64(v) == IF v.json = "number" THEN Some(v.n) ELSE None
\* Option::unwrap_or
unwrap_or(o, d) == IF o = None THEN d ELSE o[1]

(***************************************************************************)
(* The wire: statuses, headers and bodies a server can send.               *)
(***************************************************************************)
Statuses == {200, 301, 400, 401, 403, 404, 429, 500, 503, 600}

ErrorCodes == {"INVALID_API_KEY", "EXPIRED_API_KEY", "INSUFFICIENT_CREDITS",
               "RATE_LIMIT_EXCEEDED", "INVALID_REQUEST", "MISSING_REQUIRED_FIELD",
               "INVALID_MODEL", "PROVIDER_ERROR", "PROVIDER_UNAVAILABLE",
               "INTERNAL_ERROR"}
\* an error object without the required code field
MissingCode == "<missing>"

\* the details object of an error document
DetailsObjects == [provider : {JAbsent, JStr("openai"), JNum(42)},
                   retry_after : {JAbsent, JNum(30), JStr("30")},
                   current_credits : {JAbsent, JNum(5)},
                   estimated_cost : {JAbsent, JNum(7)},
                   reset_date : {JAbsent, JStr("2025-01-01")}]

\* ApiErrorDetails as it arrives: retryable is absent, a boolean, or a value
\* that is no boolean ("bad")
ErrorDocs == [text : {"error_doc"},
              code : ErrorCodes \cup {MissingCode},
              message : {"boom"},
              retryable : {"absent", "true", "false", "bad"},
              details : {None} \cup {Some(d) : d \in DetailsObjects}]

\* a body that is no error document: empty, not JSON, a JSON document of the
\* expected type T, or a body whose read fails
PlainBody(t) == [text |-> t, code |-> MissingCode, message |-> "",
                 retryable |-> "absent", details |-> None]
PlainTexts == {"empty", "garbage", "payload", "read_timeout", "read_body"}

Bodies == ErrorDocs \cup {PlainBody(t) : t \in PlainTexts}

\* the x-request-id header: absent, visible ASCII, or bytes to_str() rejects
RequestIdHeaders == {"absent", "req-1", "opaque"}

Responses == [status : Statuses, request_id : RequestIdHeaders, body : Bodies]

\* reqwest::Error: its kind and what is_timeout() and is_connect() answer.  A
\* connect failure (refused, DNS, TLS handshake) is reported under kind Request;
\* a deadline can pass while sending or while reading or decoding the body.
ReqwestErrors ==
    { e \in [kind : {"Builder", "Redirect", "Request", "Body", "Decode"},
             timeout : BOOLEAN, connect : BOOLEAN] :
          /\ e.connect => e.kind = "Request"
          /\ e.timeout => e.kind \in {"Request", "Body", "Decode"} }

(***************************************************************************)
(* src/error.rs                                                            *)
(***************************************************************************)
\* the duration_ms From<reqwest::Error> writes into Timeout
DefaultTimeoutMs == 30000

\* is_retryable without its RateLimit arm
is_retryable_noratelimit(e) ==
    CASE e.variant = "Authentication" -> e.retryable
      [] e.variant = "Provider" -> e.retryable
      [] e.variant = "Network" -> e.retryable
      [] e.variant = "Api" -> e.retryable
      [] e.variant = "Timeout" -> TRUE
      [] OTHER -> FALSE

\* is_retryable with an arm that retries Serialization errors
is_retryable_serialization(e) ==
    CASE e.variant = "Authentication" -> e.retryable
      [] e.variant = "Provider" -> e.retryable
      [] e.variant = "Network" -> e.retryable
      [] e.variant = "Api" -> e.retryable
      [] e.variant = "RateLimit" -> TRUE
      [] e.variant = "Timeout" -> TRUE
      [] e.variant = "Serialization" -> TRUE
      [] OTHER -> FALSE

\* RainyError::is_retryable
is_retryable(e) ==
    CASE e.variant = "Authentication" -> e.retryable
      [] e.variant = "Provider" -> e.retryable
      [] e.variant = "Network" -> e.retryable
      [] e.variant = "Api" -> e.retryable
      [] e.variant = "RateLimit" -> TRUE
      [] e.variant = "Timeout" -> TRUE
      [] OTHER -> FALSE

\* a conversion that takes only connect failures for retryable
from_reqwest_error_connect_only(err) ==
    IF err.timeout
    THEN [variant |-> "Timeout", message |-> "Request timed out",
          duration_ms |-> DefaultTimeoutMs]
    ELSE [variant |-> "Network", message |-> "{err}", retryable |-> err.connect,
          source_error |-> Some("{err}")]
\* impl From<reqwest::Error> for RainyError
from_reqwest_error(err) ==
    IF err.timeout
    THEN [variant |-> "Timeout", message |-> "Request timed out",
          duration_ms |-> DefaultTimeoutMs]
    ELSE IF err.connect \/ err.kind = "Request"
    THEN [variant |-> "Network", message |-> "{err}", retryable |-> TRUE,
          source_error |-> Some("{err}")]
    ELSE [variant |-> "Network", message |-> "{err}", retryable |-> FALSE,
          source_error |-> Some("{err}")]

(***************************************************************************)
(* src/client.rs: handle_response and map_api_error                        *)
(***************************************************************************)
\* StatusCode::is_success
is_success(status) == status >= 200 /\ status <= 299
\* StatusCode::is_server_error
is_server_error(status) == status >= 500 /\ status <= 599

\* StatusCode::canonical_reason().unwrap_or("UNKNOWN")
canonical_reason(status) ==
    CASE status = 200 -> "OK"
      [] status = 301 -> "Moved Permanently"
      [] status = 400 -> "Bad Request"
      [] status = 401 -> "Unauthorized"
      [] status = 403 -> "Forbidden"
      [] status = 404 -> "Not Found"
      [] status = 429 -> "Too Many Requests"
      [] status = 500 -> "Internal Server Error"
      [] status = 503 -> "Service Unavailable"
      [] OTHER -> "UNKNOWN"

\* headers.get("x-request-id").and_then(|v| v.to_str().ok()).map(String::from)
request_id_of(header) ==
    IF header \in {"absent", "opaque"} THEN None ELSE Some(header)

\* response.text(): the text, or the reqwest::Error of a failed read
read_text(body) ==
    CASE body.text = "read_timeout" ->
           Err([kind |-> "Body", timeout |-> TRUE, connect |-> FALSE])
      [] body.text = "read_body" ->
           Err([kind |-> "Body", timeout |-> FALSE, connect |-> FALSE])
      [] body.text = "empty" -> Ok("")
      [] OTHER -> Ok(body.text)

\* serde_json::from_str::<T>: only a document of the expected type parses
parse_T(text) == text = "payload"

\* serde_json::from_str::<ApiErrorResponse>: needs error.code and error.message
\* as strings, and retryable (when there) a boolean
parse_ApiErrorResponse(text, body) ==
    /\ text = "error_doc"
    /\ body.code # MissingCode
    /\ body.retryable # "bad"

\* a default that never reads the body's retryable field
retryable_status_only(error, status_code) == status_code >= 500
\* error.retryable.unwrap_or(status_code >= 500)
retryable_or_default(error, status_code) ==
    IF error.retryable = "absent" THEN status_code >= 500
    ELSE error.retryable = "true"

\* details.get(name)
details_get(details, name) ==
    IF details = None THEN JAbsent ELSE details[1][name]

\* RainyClient::map_api_error
map_api_error(error, status_code, request_id) ==
    LET retryable == retryable_or_default(error, status_code) IN
    Err(CASE error.code \in {"INVALID_API_KEY", "EXPIRED_API_KEY"} ->
               [variant |-> "Authentication", code |-> error.code,
                message |-> error.message, retryable |-> FALSE]
          [] error.code = "INSUFFICIENT_CREDITS" ->
               [variant |-> "InsufficientCredits", code |-> error.code,
                message |-> error.message,
                current_credits |->
                    unwrap_or(as_f64(details_get(error.details, "current_credits")), 0),
                estimated_cost |->
                    unwrap_or(as_f64(details_get(error.details, "estimated_cost")), 0),
                reset_date |-> as_str(details_get(error.details, "reset_date"))]
          [] error.code = "RATE_LIMIT_EXCEEDED" ->
               [variant |-> "RateLimit", code |-> error.code,
                message |-> error.message,
                retry_after |-> as_u64(details_get(error.details, "retry_after")),
                current_usage |-> None]
          [] error.code \in {"INVALID_REQUEST", "MISSING_REQUIRED_FIELD",
                             "INVALID_MODEL"} ->
               [variant |-> "InvalidRequest", code |-> error.code,
                message |-> error.message, details |-> error.details]
          [] error.code \in {"PROVIDER_ERROR", "PROVIDER_UNAVAILABLE"} ->
               [variant |-> "Provider", code |-> error.code,
                message |-> error.message,
                provider |->
                    unwrap_or(as_str(details_get(error.details, "provider")), "unknown"),
                retryable |-> retryable]
          [] OTHER ->
               [variant |-> "Api", code |-> error.code, message |-> error.message,
                status_code |-> status_code, retryable |-> retryable,
                request_id |-> request_id])

\* RainyClient::handle_response
handle_response(resp) ==
    LET status == resp.status
        request_id == request_id_of(resp.request_id)
        read == read_text(resp.body)
    IN  IF is_success(status)
        THEN IF ~read.ok THEN Err(from_reqwest_error(read.error))
             ELSE IF parse_T(read.value) THEN Ok("payload")
             ELSE Err([variant |-> "Serialization",
                       message |-> "Failed to parse response: {e}",
                       source_error |-> Some("{e}")])
        ELSE LET text == IF read.ok THEN read.value ELSE "" IN
             IF parse_ApiErrorResponse(text, resp.body)
             THEN map_api_error(resp.body, status, request_id)
             ELSE Err([variant |-> "Api", code |-> canonical_reason(status),
                       message |-> IF text = "" THEN "HTTP {status}" ELSE text,
                       status_code |-> status,
                       retryable |-> is_server_error(status),
                       request_id |-> request_id])

(***************************************************************************)
(* What the transport answers to one HTTP call: a reqwest::Error from      *)
(* send(), or a response.                                                  *)
(***************************************************************************)
NoResponse == [status |-> 200, request_id |-> "absent", body |-> PlainBody("empty")]
NoReqwestError == [kind |-> "Request", timeout |-> FALSE, connect |-> FALSE]
SendError(e) == [sent |-> "error", err |-> e, response |-> NoResponse]
SendResponse(r) == [sent |-> "response", err |-> NoReqwestError, response |-> r]

RateLimitDoc == [text |-> "error_doc", code |-> "RATE_LIMIT_EXCEEDED",
                 message |-> "boom", retryable |-> "absent", details |-> None]

\* the answers the scripted transport draws from
Exchanges ==
    { SendResponse([status |-> 200, request_id |-> "req-1", body |-> PlainBody("payload")]),
      SendResponse([status |-> 200, request_id |-> "req-1", body |-> PlainBody("garbage")]),
      SendResponse([status |-> 400, request_id |-> "absent", body |-> PlainBody("garbage")]),
      SendResponse([status |-> 503, request_id |-> "req-1", body |-> PlainBody("empty")]),
      SendResponse([status |-> 429, request_id |-> "absent", body |-> RateLimitDoc]),
      SendError([kind |-> "Request", timeout |-> TRUE, connect |-> FALSE]) }

\* a 403 answer, which the search endpoints read before handle_response
ForbiddenExchange ==
    SendResponse([status |-> 403, request_id |-> "absent", body |-> PlainBody("garbage")])

\* the largest number of URLs extract_content sends
MaxUrls == 10
\* the lengths of the `urls` argument drawn
UrlCounts == {0, 1, MaxUrls, MaxUrls + 1}

\* the body of get_cowork_capabilities: a send error and a non-success status
\* both give the free plan; only a success status reaches handle_response
cowork_operation(x) ==
    IF x.sent = "error" THEN Ok("CoworkCapabilities::free()")
    ELSE IF is_success(x.response.status)
    THEN LET r == handle_response(x.response) IN
         IF r.ok THEN Ok("CoworkCapabilities") ELSE r
    ELSE Ok("CoworkCapabilities::free()")

\* the send and classification of web_search and extract_content: the send
\* error is mapped by map_err, a 403 is answered before handle_response
search_operation(x, message) ==
    IF x.sent = "error" THEN Err([variant |-> "NetworkError", message |-> "{e}"])
    ELSE IF x.response.status = 403
    THEN Err([variant |-> "FeatureNotAvailable", feature |-> "web_research",
              message |-> message])
    ELSE handle_response(x.response)

\* the check extract_content makes of its argument before any HTTP call
validate_urls(len) ==
    IF len = 0
    THEN Err([variant |-> "ValidationError", message |-> "At least one URL is required"])
    ELSE IF len > MaxUrls
    THEN Err([variant |-> "ValidationError",
              message |-> "Maximum 10 URLs allowed per request"])
    ELSE Ok("()")

\* the closure `operation` of chat_completion and get_available_models, and the
\* tail of make_request: send()? then handle_response.  The RequestMetadata
\* chat_completion pairs with a success is read from headers and is not kept.
operation(x) ==
    IF x.sent = "error" THEN Err(from_reqwest_error(x.err))
    ELSE handle_response(x.response)

\* the answer to the i-th HTTP call
exchange(i) == IF i \in DOMAIN script THEN script[i] ELSE script[Len(script)]

(***************************************************************************)
(* src/retry.rs: retry_with_backoff                                        *)
(***************************************************************************)
\* a loop exit that takes max_retries for the number of attempts
should_return_counting_attempts(error, att, max_retries) ==
    ~is_retryable(error) \/ att + 1 >= max_retries
\* a loop that returns no retryable error, however many attempts were made
should_return_fatal_only(error, att, max_retries) == ~is_retryable(error)
\* `!error.is_retryable() || attempt == config.max_retries`
should_return(error, att, max_retries) ==
    ~is_retryable(error) \/ att = max_retries

\* a return of the error recorded by an earlier attempt
returned_error_recorded(error, last) == unwrap_or(last, error)
\* `return Err(error)`
returned_error(error, last) == error

\* the error of the path after the loop
AllRetryAttemptsFailed ==
    [variant |-> "Network", message |-> "All retry attempts failed",
     retryable |-> FALSE, source_error |-> None]

\* `if attempt < config.max_retries`, the guard of sleep(delay).await
sleeps_before_retry(att, max_retries) == att < max_retries

\* a client that wraps the operation whatever enable_retry says
retry_enabled_always(config) == TRUE
\* `if self.auth_config.enable_retry`
retry_enabled(config) == config.enable_retry

(***************************************************************************)
(* src/retry.rs: RetryConfig::delay_for_attempt.  The integers of the      *)
(* checker end at 2^31, so a u64 is written high * 2^40 + low with both    *)
(* parts below 2^31, and an f64 is high * 2^40 + num/den, +infinity or     *)
(* NaN.  An f64 has 53 significant bits: a value of 2^51 or more is        *)
(* rounded to the spacing of its binade, ties to the even neighbour; the   *)
(* values below 2^40 that are drawn are short dyadic fractions, which f64  *)
(* holds exactly.  A u32 is its bit 31 (wrapped) and its low 31 bits.      *)
(***************************************************************************)
U64(h, l) == [high |-> h, low |-> l]
\* a <= b in u64
u64_le(a, b) == a.high < b.high \/ (a.high = b.high /\ a.low <= b.low)

F64Big(h, n, d) == [class |-> "finite", high |-> h, num |-> n, den |-> d]
F64(n, d) == F64Big(0, n, d)
Infinity == [class |-> "inf", high |-> 0, num |-> 1, den |-> 1]
NaN == [class |-> "nan", high |-> 0, num |-> 0, den |-> 1]
\* a == b for finite values
f64_eq(a, b) == a.high = b.high /\ a.num * b.den = b.num * a.den
\* a <= b for finite values
f64_le(a, b) == a.high < b.high \/ (a.high = b.high /\ a.num * b.den <= b.num * a.den)

\* i32::MAX
I32Max == 2147483647
U32(w, l) == [wrapped |-> w, low |-> l]
\* attempt + 1 in u32
succ(n) ==
    IF n.low = I32Max THEN U32(~n.wrapped, 0) ELSE U32(n.wrapped, n.low + 1)

RECURSIVE Pow(_, _)
Pow(b, e) == IF e = 0 THEN 1 ELSE b * Pow(b, e - 1)

RECURSIVE Log2(_)
\* floor(log2(h)) for h >= 1
Log2(h) == IF h < 2 THEN 0 ELSE 1 + Log2(h \div 2)

\* the spacing of the f64 values of the binade of high * 2^40, high >= 1, as
\* a fraction: 2^(40 + floor(log2(high)) - 52)
ulp(h) ==
    IF Log2(h) >= 12 THEN F64(Pow(2, Log2(h) - 12), 1)
    ELSE F64(1, Pow(2, 12 - Log2(h)))

\* the multiple of u nearest to num/den >= 0, as a count of u: round to
\* nearest, a tie to the even count (high * 2^40 is an even count of u)
round_half_even(num, den, u) ==
    LET q == (num * u.den) \div (den * u.num)
        twice_rest == 2 * (num * u.den - q * den * u.num)
    IN  IF twice_rest < den * u.num THEN q
        ELSE IF twice_rest > den * u.num THEN q + 1
        ELSE IF q % 2 = 0 THEN q
        ELSE q + 1

\* the f64 nearest to a real value: what every f64 operation returns
f64_round(x) ==
    IF x.class # "finite" \/ x.high = 0 THEN x
    ELSE F64Big(x.high, round_half_even(x.num, x.den, ulp(x.high)) * ulp(x.high).num,
                ulp(x.high).den)

\* `x as f64` for a u64 x: exact below 2^53, rounded above it
u64_as_f64(x) == f64_round(F64Big(x.high, x.low, 1))

\* x^e for an exponent e past the range of f64, odd or even, e < 0 computed
\* as 1 / x^(-e): overflow, 1, -1 or underflow.  No x below -1 is drawn.
pow_saturated(x, negative, odd) ==
    CASE x.num = x.den -> F64(1, 1)
      [] x.num = -x.den -> IF odd THEN F64(-1, 1) ELSE F64(1, 1)
      [] x.num > x.den -> IF negative THEN F64(0, 1) ELSE Infinity
      [] 0 <= x.num /\ x.num < x.den -> IF negative THEN Infinity ELSE F64(0, 1)
      [] -x.den < x.num /\ x.num < 0 /\ ~negative -> F64(0, 1)

\* `self.backoff_multiplier.powi(attempt as i32)`: the cast wraps an attempt
\* >= 2^31 to the negative exponent attempt - 2^32, of magnitude
\* (2^31 - 1 - low) + 1.  The exponents 0..15 are computed exactly: the powers
\* of the multipliers drawn are short fractions there.  The exponents of
\* magnitude 2000 and more saturate.  No other exponent is drawn: a power
\* between is no short fraction, nor is a negative power of 3/2.
powi(x, n) ==
    IF ~n.wrapped
    THEN CASE n.low <= 15 -> F64(Pow(x.num, n.low), Pow(x.den, n.low))
           [] n.low >= 2000 -> pow_saturated(x, FALSE, n.low % 2 = 1)
    ELSE CASE I32Max - n.low >= 1999 -> pow_saturated(x, TRUE, n.low % 2 = 1)

\* the real product of two f64: an infinite operand meets operands >= 0 only,
\* and of two finite operands at most one is 2^40 or more
f64_mul_exact(a, b) ==
    IF a.class = "nan" \/ b.class = "nan" THEN NaN
    ELSE IF a.class = "inf" \/ b.class = "inf"
    THEN IF \/ (a.class = "finite" /\ a.high = 0 /\ a.num = 0)
            \/ (b.class = "finite" /\ b.high = 0 /\ b.num = 0)
         THEN NaN
         ELSE Infinity
    ELSE IF a.high = 0 /\ b.high = 0 THEN F64(a.num * b.num, a.den * b.den)
    ELSE LET big == IF a.high # 0 THEN a ELSE b
             small == IF a.high # 0 THEN b ELSE a
         IN  CASE small.high = 0 /\ (big.high * small.num) % small.den = 0 ->
                    F64Big((big.high * small.num) \div small.den,
                           big.num * small.num, big.den * small.den)
\* f64 * f64
f64_mul(a, b) == f64_round(f64_mul_exact(a, b))

\* a cap that lets every delay through
f64_min_uncapped(a, b) == IF a.class = "finite" THEN a ELSE b
\* f64::min(a, b) for a finite b: the other operand when one is NaN
f64_min(a, b) ==
    IF a.class # "finite" THEN b
    ELSE IF f64_le(a, b) THEN a
    ELSE b

\* `delay as u64` for a finite delay or NaN: truncation, a negative delay and
\* NaN give 0
f64_as_u64(a) ==
    IF a.class = "nan" \/ (a.high = 0 /\ a.num < 0) THEN U64(0, 0)
    ELSE U64(a.high, a.num \div a.den)

\* jitter applied to the first attempt too
jitter_applies_always(config, n) == config.jitter
\* `self.jitter && attempt > 0`
jitter_applies(config, n) == config.jitter /\ (n.wrapped \/ n.low > 0)

\* rng.gen_range(0.75..=1.25)
JitterFactors == {F64(3, 4), F64(7, 8), F64(1, 1), F64(5, 4)}

\* pub fn delay_for_attempt(&self, attempt: u32) -> Duration, in milliseconds;
\* jitter_factor is what the thread's generator draws
delay_for_attempt(config, n, jitter_factor) ==
    LET base_delay == u64_as_f64(config.base_delay_ms)
        multiplier == powi(config.backoff_multiplier, n)
        delay == f64_mul(base_delay, multiplier)
        jittered == IF jitter_applies(config, n)
                    THEN f64_mul(delay, jitter_factor)
                    ELSE delay
        capped == f64_min(jittered, u64_as_f64(config.max_delay_ms))
    IN  f64_as_u64(capped)

\* impl Default for RetryConfig
DefaultRetryConfig ==
    [max_retries |-> 3, base_delay_ms |-> U64(0, 1000), max_delay_ms |-> U64(0, 30000),
     backoff_multiplier |-> F64(2, 1), jitter |-> TRUE]

\* RetryConfig::new(max_retries)
new_retry_config(max_retries) == [DefaultRetryConfig EXCEPT !.max_retries = max_retries]

\* the configurations drawn: the fields are public, any value can be set,
\* a multiplier below 1 or below 0 and a delay past 2^53 included.  4096 * 2^40
\* is 2^52, 8192 * 2^40 is 2^53.
RetryConfigs ==
    [max_retries : {3},
     base_delay_ms : {U64(0, 0), U64(0, 1), U64(0, 1000)},
     max_delay_ms : {U64(0, 0), U64(0, 2), U64(0, 30000)},
     backoff_multiplier : {F64(-1, 1), F64(1, 2), F64(1, 1), F64(3, 2), F64(2, 1)},
     jitter : BOOLEAN]
    \cup
    [max_retries : {3},
     base_delay_ms : {U64(0, 1000), U64(4096, 3), U64(8192, 1), U64(8192, 6)},
     max_delay_ms : {U64(0, 30000), U64(6144, 0), U64(8192, 3)},
     backoff_multiplier : {F64(1, 1)},
     jitter : BOOLEAN]

\* the attempt numbers a run starts from: the small ones, and the last one the
\* cast to i32 leaves alone
StartAttempts == {U32(FALSE, k) : k \in 0..MaxAttempt} \cup {U32(FALSE, I32Max)}

(***************************************************************************)
(* src/auth.rs: AuthConfig::validate and AuthConfig::build_headers.  A     *)
(* String is the sequence of its UTF-8 bytes.                              *)
(***************************************************************************)
\* "ra-"
KeyPrefix == <<114, 97, 45>>
\* "Bearer "
Bearer == <<66, 101, 97, 114, 101, 114, 32>>
\* "application/json"
ApplicationJson == <<97, 112, 112, 108, 105, 99, 97, 116, 105, 111, 110, 47, 106, 115, 111, 110>>

\* the api keys drawn: "", "ra", "ra-", "Ra-k", "ra-test-key", "invalid-key", "bad-format", "ra-k\ny", "k\n"
ApiKeys ==
    { <<>>,
      <<114, 97>>,
      <<114, 97, 45>>,
      <<82, 97, 45, 107>>,
      <<114, 97, 45, 116, 101, 115, 116, 45, 107, 101, 121>>,
      <<105, 110, 118, 97, 108, 105, 100, 45, 107, 101, 121>>,
      <<98, 97, 100, 45, 102, 111, 114, 109, 97, 116>>,
      <<114, 97, 45, 107, 10, 121>>,
      <<107, 10>> }

\* format!("rainy-sdk-rust/{}", crate::VERSION), for the version 0.2.0 the
\* crate documents
DefaultUserAgent ==
    <<114, 97, 105, 110, 121, 45, 115, 100, 107, 45, 114, 117, 115, 116, 47, 48, 46, 50, 46, 48>>
\* the user agents drawn: the default, "", "u\ta", "u\x7fa"
UserAgents ==
    { DefaultUserAgent,
      <<>>,
      <<117, 9, 97>>,
      <<117, 127, 97>> }

\* crate::DEFAULT_BASE_URL
DefaultBaseUrl == "https://api.enosislabs.com"
\* the base URLs drawn, and what url::Url::parse answers for each: the last
\* three have no scheme, or an unclosed IPv6 host
BaseUrls == {DefaultBaseUrl, "http://localhost:8080/v1", "", "not a url", "http://[::1"}
url_parse_is_err(base_url) == base_url \in {"", "not a url", "http://[::1"}

\* the timeouts and the retry budgets the builders are given
BuilderTimeouts == {30, 60, 5}
BuilderMaxRetries == {3, 5, 0}

\* AuthConfig::new(api_key)
new_auth_config(api_key) ==
    [api_key |-> api_key, base_url |-> DefaultBaseUrl, timeout_seconds |-> 30,
     max_retries |-> 3, enable_retry |-> TRUE, user_agent |-> DefaultUserAgent]

\* the configurations new and the builders make
AuthConfigs ==
    [api_key : ApiKeys, base_url : BaseUrls, user_agent : UserAgents,
     timeout_seconds : BuilderTimeouts, max_retries : BuilderMaxRetries,
     enable_retry : BOOLEAN]

\* str::starts_with
starts_with(str, prefix) ==
    /\ Len(str) >= Len(prefix)
    /\ SubSeq(str, 1, Len(prefix)) = prefix

\* a validate that looks at the base URL before the key
validate_url_first(config) ==
    IF url_parse_is_err(config.base_url)
    THEN Err([variant |-> "InvalidRequest", code |-> "INVALID_BASE_URL",
              message |-> "Base URL is not a valid URL", details |-> None])
    ELSE IF config.api_key = <<>>
    THEN Err([variant |-> "Authentication", code |-> "EMPTY_API_KEY",
              message |-> "API key cannot be empty",
              retryable |-> FALSE])
    ELSE IF ~starts_with(config.api_key, KeyPrefix)
    THEN Err([variant |-> "Authentication", code |-> "INVALID_API_KEY_FORMAT",
              message |-> "API key must start with 'ra-'",
              retryable |-> FALSE])
    ELSE Ok("()")
\* pub fn validate(&self) -> Result<()>
validate(config) ==
    IF config.api_key = <<>>
    THEN Err([variant |-> "Authentication", code |-> "EMPTY_API_KEY",
              message |-> "API key cannot be empty",
              retryable |-> FALSE])
    ELSE IF ~starts_with(config.api_key, KeyPrefix)
    THEN Err([variant |-> "Authentication", code |-> "INVALID_API_KEY_FORMAT",
              message |-> "API key must start with 'ra-'",
              retryable |-> FALSE])
    ELSE IF url_parse_is_err(config.base_url)
    THEN Err([variant |-> "InvalidRequest", code |-> "INVALID_BASE_URL",
              message |-> "Base URL is not a valid URL", details |-> None])
    ELSE Ok("()")

\* http::header::value: the bytes a header value may hold
is_valid(byte) == byte = 9 \/ (byte >= 32 /\ byte # 127)

\* a conversion that takes every string for a header value
from_str_unchecked(str) == Ok(str)
\* HeaderValue::from_str
from_str(str) ==
    IF \A i \in DOMAIN str : is_valid(str[i]) THEN Ok(str) ELSE Err("InvalidHeaderValue")

\* impl From<reqwest::header::InvalidHeaderValue> for RainyError
from_invalid_header_value ==
    [variant |-> "InvalidRequest", code |-> "INVALID_HEADER",
     message |-> "Invalid header value: {err}", details |-> None]

\* HeaderMap::new() and HeaderMap::insert
EmptyHeaderMap == [name \in {} |-> <<>>]
insert(headers, name, value) ==
    [k \in DOMAIN headers \cup {name} |-> IF k = name THEN value ELSE headers[k]]

\* pub fn build_headers(&self) -> Result<HeaderMap>
build_headers(config) ==
    LET user_agent == from_str(config.user_agent) IN
    IF ~user_agent.ok THEN Err(from_invalid_header_value)
    ELSE LET h1 == insert(EmptyHeaderMap, "user-agent", user_agent.value)
             h2 == insert(h1, "content-type", ApplicationJson)
             auth_value == from_str(Bearer \o config.api_key)
         IN  IF ~auth_value.ok THEN Err(from_invalid_header_value)
             ELSE Ok(insert(h2, "authorization", auth_value.value))

(***************************************************************************)
(* src/auth.rs: the fixed-window RateLimiter.  Instants and Durations are  *)
(* whole seconds.                                                          *)
(***************************************************************************)
\* Duration::from_secs(60)
Window == 60

\* RateLimiter::new(requests_per_minute), made at the instant `now`
new_rate_limiter(requests_per_minute, now) ==
    [requests_per_minute |-> requests_per_minute, last_request |-> now,
     request_count |-> 0]

\* `if elapsed >= Duration::from_secs(60)`: the counter starts over
reset_if_window_passed(l, now, elapsed) ==
    IF elapsed >= Window
    THEN [l EXCEPT !.request_count = 0, !.last_request = now]
    ELSE l

\* a test that lets one call more through
limit_exceeded(l) == l.request_count > l.requests_per_minute
\* `if self.request_count >= self.requests_per_minute`
limit_reached(l) == l.request_count >= l.requests_per_minute

\* Duration - Duration: None where the subtraction panics
duration_sub(a, b) == IF b > a THEN None ELSE Some(a - b)

\* the tasks that call wait_if_needed; `&mut self` lets one in at a time
Callers == {1, 2}
\* the time that passes between two calls
TickSteps == {20, 61}
\* how late tokio::time::sleep may wake
Lateness == {0, 1}

(***************************************************************************)
(* src/endpoints/chat.rs: the decoding of the chat stream.  The response   *)
(* body read through bytes_stream().eventsource() is a sequence of items,  *)
(* each an Event or an EventStreamError, and filter_map turns every item   *)
(* into at most one item of the returned stream.                           *)
(***************************************************************************)
\* how many items the transport delivers before the body ends
MaxEvents == 3

\* Event.data: its text, with the whitespace before and after it kept apart
EventData(lead, body, trail) == [lead |-> lead, body |-> body, trail |-> trail]
\* str::trim
trim(data) == data.body
\* the literal compared with the trimmed payload
DoneSentinel == "[DONE]"
\* the texts serde_json reads as a ChatCompletionResponse
ChatDocuments == {"chunk_a", "chunk_b"}
\* serde_json::from_str::<ChatCompletionResponse>(&event.data): whitespace
\* around the document is JSON whitespace
serde_from_str(data) ==
    IF data.body \in ChatDocuments THEN Ok(data.body) ELSE Err("{e}")

\* the items of the eventsource stream
Event(data) == Ok([data |-> data])
EventStreamError(kind) == Err([kind |-> kind])
SseItems ==
    { Event(EventData("", "chunk_a", "")),
      Event(EventData("", "chunk_b", "")),
      Event(EventData("", "garbage", "")),
      Event(EventData("", DoneSentinel, "")),
      Event(EventData("", DoneSentinel, " ")),
      EventStreamError("Transport"),
      EventStreamError("Utf8") }
RECURSIVE SseFeeds(_)
\* the bodies of at most n items
SseFeeds(n) ==
    IF n = 0 THEN {<<>>}
    ELSE LET shorter == SseFeeds(n - 1) IN
         shorter \cup {Append(f, i) : f \in {g \in shorter : Len(g) = n - 1}, i \in SseItems}

\* a closure that parses every payload, the sentinel included
sse_item_parsing_sentinel(event) ==
    IF event.ok
    THEN LET parsed == serde_from_str(event.value.data) IN
         IF parsed.ok THEN Some(Ok(parsed.value))
         ELSE Some(Err([variant |-> "Serialization", message |-> "{e}",
                        source_error |-> Some("{e}")]))
    ELSE Some(Err([variant |-> "Network", message |-> "SSE parsing error: {e}",
                   retryable |-> TRUE, source_error |-> Some("{e}")]))
\* a closure that drops the payloads serde_json does not read
sse_item_dropping_unparsed(event) ==
    IF event.ok
    THEN IF trim(event.value.data) = DoneSentinel THEN None
         ELSE LET parsed == serde_from_str(event.value.data) IN
              IF parsed.ok THEN Some(Ok(parsed.value)) ELSE None
    ELSE Some(Err([variant |-> "Network", message |-> "SSE parsing error: {e}",
                   retryable |-> TRUE, source_error |-> Some("{e}")]))
\* the closure given to filter_map: None drops the item, Some(x) yields x
sse_item(event) ==
    IF event.ok
    THEN IF trim(event.value.data) = DoneSentinel THEN None
         ELSE LET parsed == serde_from_str(event.value.data) IN
              IF parsed.ok THEN Some(Ok(parsed.value))
              ELSE Some(Err([variant |-> "Serialization", message |-> "{e}",
                             source_error |-> Some("{e}")]))
    ELSE Some(Err([variant |-> "Network", message |-> "SSE parsing error: {e}",
                   retryable |-> TRUE, source_error |-> Some("{e}")]))

\* no chat stream has been asked for
NoStream == [source |-> <<>>, pos |-> 0, yielded |-> <<>>, state |-> "none"]

PipelineIdle ==
    /\ response = NoResponse
    /\ classified = <<>>
    /\ classified_by = <<>>

\* no delay has been asked for, and the fixed-window limiter is not in use
NoDelayRun == <<>>
NoAcquisition ==
    [pc |-> "idle", n |-> 0, caller |-> 0, start |-> 0, elapsed |-> 0, wait |-> 0]
StandaloneIdle ==
    /\ delay_run = NoDelayRun
    /\ limiter = [requests_per_minute |-> 0, last_request |-> 0, request_count |-> 0]
    /\ clock = 0
    /\ acq = NoAcquisition

\* the configurations a client is asked to be built from: the keys "ra-test-key",
\* "invalid-key", "" and "ra-k\ny", a base URL that parses and one that does not,
\* a user agent that is a header value and one that is not
ClientConfigs ==
    [api_key : { <<114, 97, 45, 116, 101, 115, 116, 45, 107, 101, 121>>,
                 <<105, 110, 118, 97, 108, 105, 100, 45, 107, 101, 121>>,
                 <<>>,
                 <<114, 97, 45, 107, 10, 121>> },
     base_url : {DefaultBaseUrl, "not a url"},
     user_agent : { DefaultUserAgent,
                    <<117, 127, 97>> },
     timeout_seconds : {30},
     max_retries : 0..MaxRetries,
     enable_retry : BOOLEAN]

\* a constructor that does not validate the configuration
with_config_unvalidated(config, feature, builder_ok) ==
    IF ~from_str(Bearer \o config.api_key).ok
    THEN Err([variant |-> "Authentication", code |-> "INVALID_API_KEY",
              message |-> "Invalid API key format: {e}", retryable |-> FALSE])
    ELSE IF ~from_str(config.user_agent).ok
    THEN Err([variant |-> "Network", message |-> "Invalid user agent: {e}",
              retryable |-> FALSE, source_error |-> None])
    ELSE IF ~builder_ok
    THEN Err([variant |-> "Network", message |-> "Failed to create HTTP client: {e}",
              retryable |-> FALSE, source_error |-> Some("{e}")])
    ELSE Ok([auth_config |-> config,
             retry_config |-> new_retry_config(config.max_retries),
             rate_limiter |-> IF feature THEN Some("governor") ELSE None])
\* RainyClient::with_config(auth_config): feature says whether the build has
\* the rate-limiting feature, builder_ok whether Client::builder().build()
\* succeeds
with_config(config, feature, builder_ok) ==
    IF ~validate(config).ok THEN Err(validate(config).error)
    ELSE IF ~from_str(Bearer \o config.api_key).ok
    THEN Err([variant |-> "Authentication", code |-> "INVALID_API_KEY",
              message |-> "Invalid API key format: {e}", retryable |-> FALSE])
    ELSE IF ~from_str(config.user_agent).ok
    THEN Err([variant |-> "Network", message |-> "Invalid user agent: {e}",
              retryable |-> FALSE, source_error |-> None])
    ELSE IF ~builder_ok
    THEN Err([variant |-> "Network", message |-> "Failed to create HTTP client: {e}",
              retryable |-> FALSE, source_error |-> Some("{e}")])
    ELSE Ok([auth_config |-> config,
             retry_config |-> new_retry_config(config.max_retries),
             rate_limiter |-> IF feature THEN Some("governor") ELSE None])

\* the state after RainyClient::with_config(config): a client in its fields, or
\* no client and the error returned (pc = "refused"; auth_config then holds the
\* configuration that was refused)
Init ==
    /\ mode = "pipeline"
    /\ \E config \in ClientConfigs, feature \in BOOLEAN, builder_ok \in BOOLEAN :
           LET built == with_config(config, feature, builder_ok) IN
           IF built.ok
           THEN /\ auth_config = built.value.auth_config
                /\ retry_config = built.value.retry_config
                /\ rate_limiter = built.value.rate_limiter
                /\ script \in [1..(MaxRetries + 1) -> Exchanges]
                                \cup {[i \in 1..(MaxRetries + 1) |-> ForbiddenExchange]}
                /\ pc = "idle"
                /\ result = None
           ELSE /\ auth_config = config
                /\ retry_config = new_retry_config(config.max_retries)
                /\ rate_limiter = None
                /\ script = [i \in 1..(MaxRetries + 1) |-> SendResponse(NoResponse)]
                /\ pc = "refused"
                /\ result = Some(built)
    /\ op = "none"
    /\ sse = NoStream
    /\ sleeping_for = None
    /\ in_flight = {}
    /\ attempt = 0
    /\ last_error = None
    /\ invocations = 0
    /\ sleeps = 0
    /\ acquired = 0
    /\ PipelineIdle
    /\ StandaloneIdle

\* RainyClient::with_retry_config
with_retry_config(m) ==
    /\ mode = "pipeline"
    /\ pc = "idle"
    /\ retry_config' = new_retry_config(m)
    /\ UNCHANGED <<auth_config, rate_limiter, script, op, pc, attempt, last_error,
                   invocations, sleeps, acquired, result, response, classified, mode, standalone,
                   sse, sleeping_for,
                   in_flight, classified_by>>

\* an operation that does not await the limiter
until_ready_skipped == acquired
\* limiter.until_ready().await, when the client holds a limiter
until_ready == IF rate_limiter # None THEN acquired + 1 ELSE acquired

\* RainyClient::chat_completion up to its first attempt
chat_completion ==
    /\ mode = "pipeline"
    /\ pc = "idle"
    /\ op' = "chat_completion"
    /\ acquired' = until_ready
    /\ pc' = IF retry_enabled(auth_config) THEN "retry_loop" ELSE "single"
    /\ UNCHANGED <<auth_config, retry_config, rate_limiter, script, attempt,
                   last_error, invocations, sleeps, result, response, classified, mode, standalone,
                   sse, sleeping_for,
                   in_flight, classified_by>>

\* RainyClient::get_available_models up to its first attempt
get_available_models ==
    /\ mode = "pipeline"
    /\ pc = "idle"
    /\ op' = "get_available_models"
    /\ pc' = IF retry_enabled(auth_config) THEN "retry_loop" ELSE "single"
    /\ UNCHANGED <<auth_config, retry_config, rate_limiter, script, attempt,
                   last_error, invocations, sleeps, acquired, result, response,
                   classified, mode, standalone,
                   sse, sleeping_for,
                   in_flight, classified_by>>

\* RainyClient::make_request up to its HTTP call.  build_headers() validates the
\* two header values with_config has validated already, so it returns Ok here.
make_request ==
    /\ mode = "pipeline"
    /\ pc = "idle"
    /\ op' = "make_request"
    /\ acquired' = until_ready
    /\ pc' = "single"
    /\ UNCHANGED <<auth_config, retry_config, rate_limiter, script, attempt,
                   last_error, invocations, sleeps, result, response, classified, mode, standalone,
                   sse, sleeping_for,
                   in_flight, classified_by>>

\* retry_with_backoff called by the library's user with the client's RetryConfig
retry_with_backoff ==
    /\ mode = "pipeline"
    /\ pc = "idle"
    /\ op' = "retry_with_backoff"
    /\ pc' = "retry_loop"
    /\ UNCHANGED <<auth_config, retry_config, rate_limiter, script, attempt,
                   last_error, invocations, sleeps, acquired, result, response,
                   classified, mode, standalone,
                   sse, sleeping_for,
                   in_flight, classified_by>>

\* a future that is started and never awaited stays in flight
awaited_detached(futures, k) == futures
\* `.await` on the future of invocation k: the caller resumes only when that
\* future has completed, so it is in flight no longer
awaited(futures, k) == futures \ {k}

\* the head of one iteration of `for attempt in 0..=config.max_retries`:
\* `operation()` is called and its future awaited; or, once the range is
\* used up, the path after the loop
retry_attempt ==
    /\ mode = "pipeline"
    /\ pc = "retry_loop"
    /\ IF attempt > retry_config.max_retries
       THEN /\ result' = Some(Err(unwrap_or(last_error, AllRetryAttemptsFailed)))
            /\ pc' = "done"
            /\ UNCHANGED <<invocations, in_flight>>
       ELSE /\ invocations' = invocations + 1
            /\ in_flight' = in_flight \cup {invocations + 1}
            /\ pc' = "awaiting"
            /\ result' = result
    /\ UNCHANGED <<auth_config, retry_config, rate_limiter, script, op, attempt,
                   last_error, sleeps, acquired, response, classified, mode, standalone,
                   sse, sleeping_for, classified_by>>

\* the awaited invocation returns and the `match` of the iteration runs: a
\* return from the loop, or the record of the error and the sleep
operation_returns ==
    /\ mode = "pipeline"
    /\ pc = "awaiting"
    /\ in_flight' = awaited(in_flight, invocations)
    /\ LET r == operation(exchange(invocations)) IN
       IF r.ok
       THEN /\ result' = Some(r)
            /\ pc' = "done"
            /\ UNCHANGED <<attempt, last_error, sleeping_for>>
       ELSE IF should_return(r.error, attempt, retry_config.max_retries)
       THEN /\ result' = Some(Err(returned_error(r.error, last_error)))
            /\ pc' = "done"
            /\ UNCHANGED <<attempt, last_error, sleeping_for>>
       ELSE /\ last_error' = Some(r.error)
            /\ result' = result
            /\ \E jitter_factor \in JitterFactors :
                 LET delay == delay_for_attempt(retry_config, U32(FALSE, attempt),
                                                jitter_factor)
                 IN  IF sleeps_before_retry(attempt, retry_config.max_retries)
                     THEN /\ pc' = "sleeping"
                          /\ attempt' = attempt
                          /\ sleeping_for' = Some(delay)
                     ELSE /\ pc' = "retry_loop"
                          /\ attempt' = attempt + 1
                          /\ sleeping_for' = None
    /\ UNCHANGED <<auth_config, retry_config, rate_limiter, script, op, invocations,
                   sleeps, acquired, response, classified, mode, standalone, sse,
                   classified_by>>

\* sleep(delay).await completes and the loop takes its next attempt
sleep_done ==
    /\ mode = "pipeline"
    /\ pc = "sleeping"
    /\ sleeps' = sleeps + 1
    /\ attempt' = attempt + 1
    /\ sleeping_for' = None
    /\ pc' = "retry_loop"
    /\ UNCHANGED <<auth_config, retry_config, rate_limiter, script, op, last_error,
                   invocations, acquired, result, response, classified, mode, standalone,
                   sse,
                   in_flight, classified_by>>

\* `operation().await` without retry, and make_request's HTTP call: the request
\* is issued and the call suspends in send().await
single_attempt ==
    /\ mode = "pipeline"
    /\ pc = "single"
    /\ invocations' = invocations + 1
    /\ pc' = "sending"
    /\ result' = result
    /\ UNCHANGED <<auth_config, retry_config, rate_limiter, script, op, attempt,
                   last_error, sleeps, acquired, response, classified, mode, standalone,
                   sse, sleeping_for,
                   in_flight, classified_by>>

\* the answer arrives: send().await and handle_response complete and the
\* operation returns
single_returns ==
    /\ mode = "pipeline"
    /\ pc = "sending"
    /\ op \in {"chat_completion", "get_available_models", "make_request"}
    /\ result' = Some(operation(exchange(invocations)))
    /\ pc' = "done"
    /\ UNCHANGED <<auth_config, retry_config, rate_limiter, script, op, attempt,
                   last_error, invocations, sleeps, acquired, response, classified, mode,
                   standalone, sse, sleeping_for, in_flight, classified_by>>

\* RainyClient::get_cowork_capabilities, which has_paid_plan, get_cowork_models,
\* can_use_feature, can_use_model and can_make_request call: one send through
\* http_client(), no limiter and no retry; the request is issued and the call
\* suspends in send().await
get_cowork_capabilities ==
    /\ mode = "pipeline"
    /\ pc = "idle"
    /\ op' = "get_cowork_capabilities"
    /\ invocations' = invocations + 1
    /\ pc' = "sending"
    /\ result' = result
    /\ UNCHANGED <<auth_config, retry_config, rate_limiter, script, attempt,
                   last_error, sleeps, acquired, response, classified, mode, standalone,
                   sse, sleeping_for,
                   in_flight, classified_by>>

\* the answer to get_cowork_capabilities arrives and the call returns
get_cowork_capabilities_returns ==
    /\ mode = "pipeline"
    /\ pc = "sending"
    /\ op = "get_cowork_capabilities"
    /\ result' = Some(cowork_operation(exchange(invocations)))
    /\ pc' = "done"
    /\ UNCHANGED <<auth_config, retry_config, rate_limiter, script, op, attempt,
                   last_error, invocations, sleeps, acquired, response, classified, mode,
                   standalone, sse, sleeping_for, in_flight, classified_by>>

\* RainyClient::web_search: one send through http_client(), no limiter and no
\* retry; the request is issued and the call suspends in send().await
web_search ==
    /\ mode = "pipeline"
    /\ pc = "idle"
    /\ op' = "web_search"
    /\ invocations' = invocations + 1
    /\ pc' = "sending"
    /\ result' = result
    /\ UNCHANGED <<auth_config, retry_config, rate_limiter, script, attempt,
                   last_error, sleeps, acquired, response, classified, mode, standalone,
                   sse, sleeping_for,
                   in_flight, classified_by>>

\* the answer to web_search arrives and the call returns
web_search_returns ==
    /\ mode = "pipeline"
    /\ pc = "sending"
    /\ op = "web_search"
    /\ result' = Some(search_operation(exchange(invocations),
                                       "Web search requires a Cowork plan with web_research enabled"))
    /\ pc' = "done"
    /\ UNCHANGED <<auth_config, retry_config, rate_limiter, script, op, attempt,
                   last_error, invocations, sleeps, acquired, response, classified, mode,
                   standalone, sse, sleeping_for, in_flight, classified_by>>

\* RainyClient::extract_content(urls) for a vector of the given length: the
\* validation of the vector returns at once, otherwise the request is issued
\* and the call suspends in send().await
extract_content(len) ==
    /\ mode = "pipeline"
    /\ pc = "idle"
    /\ op' = "extract_content"
    /\ IF ~validate_urls(len).ok
       THEN /\ result' = Some(validate_urls(len))
            /\ invocations' = invocations
            /\ pc' = "done"
       ELSE /\ result' = result
            /\ invocations' = invocations + 1
            /\ pc' = "sending"
    /\ UNCHANGED <<auth_config, retry_config, rate_limiter, script, attempt,
                   last_error, sleeps, acquired, response, classified, mode, standalone,
                   sse, sleeping_for,
                   in_flight, classified_by>>

\* the answer to extract_content arrives and the call returns
extract_content_returns ==
    /\ mode = "pipeline"
    /\ pc = "sending"
    /\ op = "extract_content"
    /\ result' = Some(search_operation(exchange(invocations),
                                       "Content extraction requires a Cowork plan with web_research enabled"))
    /\ pc' = "done"
    /\ UNCHANGED <<auth_config, retry_config, rate_limiter, script, op, attempt,
                   last_error, invocations, sleeps, acquired, response, classified, mode,
                   standalone, sse, sleeping_for, in_flight, classified_by>>

Next ==
    \/ \E m \in 0..MaxRetries : with_retry_config(m)
    \/ chat_completion
    \/ get_available_models
    \/ make_request
    \/ get_cowork_capabilities
    \/ get_cowork_capabilities_returns
    \/ web_search
    \/ web_search_returns
    \/ \E len \in UrlCounts : extract_content(len)
    \/ extract_content_returns
    \/ retry_with_backoff
    \/ retry_attempt
    \/ operation_returns
    \/ sleep_done
    \/ single_attempt
    \/ single_returns

Spec == Init /\ [][Next]_vars

(***************************************************************************)
(* Classification runs: handle_response applied to one response, again and *)
(* again, by clients of different configurations.                          *)
(***************************************************************************)
\* the clients that classify: the one with_config builds from
\* AuthConfig::new("ra-test-key"), and one built after with_timeout(5) and
\* with_retry(false)
ClassifyClients ==
    LET config == new_auth_config(<<114, 97, 45, 116, 101, 115, 116, 45, 107, 101, 121>>) IN
    { with_config(config, TRUE, TRUE).value,
      with_config([config EXCEPT !.timeout_seconds = 5, !.enable_retry = FALSE],
                  FALSE, TRUE).value }

\* a classification that lets no error be retried when the client has retries
\* disabled
self_handle_response_by_retry_flag(self, resp) ==
    LET r == handle_response(resp) IN
    IF ~r.ok /\ "retryable" \in DOMAIN r.error
    THEN Err([r.error EXCEPT !.retryable = @ /\ self.auth_config.enable_retry])
    ELSE r
\* self.handle_response(response).await: `&self` is passed, and neither
\* handle_response nor map_api_error reads a field of it
self_handle_response(self, resp) == handle_response(resp)

InitClassify ==
    /\ mode = "classify"
    /\ \E x \in {SendResponse(r) : r \in Responses} \cup {SendError(e) : e \in ReqwestErrors} :
           /\ script = [i \in 1..(MaxRetries + 1) |-> x]
           /\ response = x.response
    /\ classified = <<>>
    /\ classified_by = <<>>
    /\ auth_config = [enable_retry |-> TRUE, max_retries |-> 0]
    /\ retry_config = [max_retries |-> 0]
    /\ rate_limiter = None
    /\ op = "none"
    /\ sse = NoStream
    /\ sleeping_for = None
    /\ in_flight = {}
    /\ pc = "idle"
    /\ attempt = 0
    /\ last_error = None
    /\ invocations = 0
    /\ sleeps = 0
    /\ acquired = 0
    /\ result = None
    /\ StandaloneIdle

\* self.handle_response(response).await, by one of the clients
classify ==
    /\ mode = "classify"
    /\ script[1].sent = "response"
    /\ Len(classified) < MaxClassify
    /\ \E self \in ClassifyClients :
           /\ classified' = Append(classified, self_handle_response(self, response))
           /\ classified_by' = Append(classified_by, self)
    /\ UNCHANGED <<auth_config, retry_config, rate_limiter, script, op, pc, attempt,
                   last_error, invocations, sleeps, acquired, result, response, mode, standalone,
                   sse, sleeping_for, in_flight>>

\* `.send().await?` in an operation of one of the clients: the transport failed
\* and `?` converts its reqwest::Error
convert ==
    /\ mode = "classify"
    /\ script[1].sent = "error"
    /\ Len(classified) < MaxClassify
    /\ \E self \in ClassifyClients :
           /\ classified' = Append(classified, Err(from_reqwest_error(script[1].err)))
           /\ classified_by' = Append(classified_by, self)
    /\ UNCHANGED <<auth_config, retry_config, rate_limiter, script, op, pc, attempt,
                   last_error, invocations, sleeps, acquired, result, response, mode, standalone,
                   sse, sleeping_for, in_flight>>

NextClassify == classify \/ convert

SpecClassify == InitClassify /\ [][NextClassify]_vars

(***************************************************************************)
(* Delay runs: delay_for_attempt asked for consecutive attempt numbers of  *)
(* one RetryConfig.                                                        *)
(***************************************************************************)
\* a client that is not in use
ClientIdle ==
    /\ rate_limiter = None
    /\ script = [i \in 1..(MaxRetries + 1) |-> SendResponse(NoResponse)]
    /\ op = "none"
    /\ sse = NoStream
    /\ sleeping_for = None
    /\ in_flight = {}
    /\ pc = "idle"
    /\ attempt = 0
    /\ last_error = None
    /\ invocations = 0
    /\ sleeps = 0
    /\ acquired = 0
    /\ result = None
    /\ PipelineIdle

InitDelay ==
    /\ mode = "delay"
    /\ retry_config \in RetryConfigs
    /\ auth_config = [enable_retry |-> TRUE, max_retries |-> 0]
    /\ ClientIdle
    /\ StandaloneIdle

\* config.delay_for_attempt(n): for the first call n is any start, for the
\* later ones the next attempt number.  The factor is drawn only when jitter
\* applies; the run keeps it next to the delay returned.
delay_call ==
    /\ mode = "delay"
    /\ Len(delay_run) < MaxDelayCalls
    /\ \E n \in (IF delay_run = <<>> THEN StartAttempts
                  ELSE {succ(delay_run[Len(delay_run)].attempt)}) :
           \E f \in (IF jitter_applies(retry_config, n) THEN JitterFactors
                      ELSE {F64(1, 1)}) :
               delay_run' = Append(delay_run,
                                   [attempt |-> n,
                                    jitter_factor |-> f,
                                    delay |-> delay_for_attempt(retry_config, n, f)])
    /\ UNCHANGED <<auth_config, retry_config, rate_limiter, script, op, pc, attempt,
                   last_error, invocations, sleeps, acquired, result, response,
                   classified, mode, limiter, clock, acq,
                   sse, sleeping_for,
                   in_flight, classified_by>>

NextDelay == delay_call

SpecDelay == InitDelay /\ [][NextDelay]_vars

(***************************************************************************)
(* Configuration runs: one AuthConfig, its builders, and one call of       *)
(* validate or build_headers.                                              *)
(***************************************************************************)
InitAuth ==
    /\ mode = "auth"
    /\ \E api_key \in ApiKeys : auth_config = new_auth_config(api_key)
    /\ retry_config = [max_retries |-> auth_config.max_retries]
    /\ ClientIdle
    /\ StandaloneIdle

\* pub fn with_base_url(mut self, base_url) -> Self
with_base_url(base_url) ==
    /\ mode = "auth"
    /\ pc = "idle"
    /\ auth_config' = [auth_config EXCEPT !.base_url = base_url]
    /\ UNCHANGED <<retry_config, rate_limiter, script, op, pc, attempt, last_error,
                   invocations, sleeps, acquired, result, response, classified,
                   mode, standalone,
                   sse, sleeping_for,
                   in_flight, classified_by>>

\* pub fn with_timeout(mut self, seconds: u64) -> Self
with_timeout(seconds) ==
    /\ mode = "auth"
    /\ pc = "idle"
    /\ auth_config' = [auth_config EXCEPT !.timeout_seconds = seconds]
    /\ UNCHANGED <<retry_config, rate_limiter, script, op, pc, attempt, last_error,
                   invocations, sleeps, acquired, result, response, classified,
                   mode, standalone,
                   sse, sleeping_for,
                   in_flight, classified_by>>

\* pub fn with_max_retries(mut self, retries: u32) -> Self
with_max_retries(retries) ==
    /\ mode = "auth"
    /\ pc = "idle"
    /\ auth_config' = [auth_config EXCEPT !.max_retries = retries]
    /\ UNCHANGED <<retry_config, rate_limiter, script, op, pc, attempt, last_error,
                   invocations, sleeps, acquired, result, response, classified,
                   mode, standalone,
                   sse, sleeping_for,
                   in_flight, classified_by>>

\* pub fn with_retry(mut self, enable: bool) -> Self
with_retry(enable) ==
    /\ mode = "auth"
    /\ pc = "idle"
    /\ auth_config' = [auth_config EXCEPT !.enable_retry = enable]
    /\ UNCHANGED <<retry_config, rate_limiter, script, op, pc, attempt, last_error,
                   invocations, sleeps, acquired, result, response, classified,
                   mode, standalone,
                   sse, sleeping_for,
                   in_flight, classified_by>>

\* pub fn with_user_agent(mut self, user_agent) -> Self
with_user_agent(user_agent) ==
    /\ mode = "auth"
    /\ pc = "idle"
    /\ auth_config' = [auth_config EXCEPT !.user_agent = user_agent]
    /\ UNCHANGED <<retry_config, rate_limiter, script, op, pc, attempt, last_error,
                   invocations, sleeps, acquired, result, response, classified,
                   mode, standalone,
                   sse, sleeping_for,
                   in_flight, classified_by>>

\* config.validate()
validate_call ==
    /\ mode = "auth"
    /\ pc = "idle"
    /\ op' = "validate"
    /\ result' = Some(validate(auth_config))
    /\ pc' = "done"
    /\ UNCHANGED <<auth_config, retry_config, rate_limiter, script, attempt,
                   last_error, invocations, sleeps, acquired, response, classified,
                   mode, standalone,
                   sse, sleeping_for,
                   in_flight, classified_by>>

\* config.build_headers()
build_headers_call ==
    /\ mode = "auth"
    /\ pc = "idle"
    /\ op' = "build_headers"
    /\ result' = Some(build_headers(auth_config))
    /\ pc' = "done"
    /\ UNCHANGED <<auth_config, retry_config, rate_limiter, script, attempt,
                   last_error, invocations, sleeps, acquired, response, classified,
                   mode, standalone,
                   sse, sleeping_for,
                   in_flight, classified_by>>

NextAuth ==
    \/ \E base_url \in BaseUrls : with_base_url(base_url)
    \/ \E seconds \in BuilderTimeouts : with_timeout(seconds)
    \/ \E retries \in BuilderMaxRetries : with_max_retries(retries)
    \/ \E enable \in BOOLEAN : with_retry(enable)
    \/ \E user_agent \in UserAgents : with_user_agent(user_agent)
    \/ validate_call
    \/ build_headers_call

SpecAuth == InitAuth /\ [][NextAuth]_vars

(***************************************************************************)
(* Limiter runs: one fixed-window RateLimiter, time, and callers of        *)
(* wait_if_needed.                                                         *)
(***************************************************************************)
InitLimiter ==
    /\ mode = "limiter"
    /\ clock = 0
    /\ \E requests_per_minute \in 0..MaxRpm :
           limiter = new_rate_limiter(requests_per_minute, clock)
    /\ acq = NoAcquisition
    /\ delay_run = NoDelayRun
    /\ auth_config = [enable_retry |-> TRUE, max_retries |-> 0]
    /\ retry_config = [max_retries |-> 0]
    /\ ClientIdle

\* time passes while no call is in progress
tick(d) ==
    /\ mode = "limiter"
    /\ acq.pc = "idle"
    /\ clock + d <= MaxClock
    /\ clock' = clock + d
    /\ UNCHANGED <<auth_config, retry_config, rate_limiter, script, op, pc, attempt,
                   last_error, invocations, sleeps, acquired, result, response,
                   classified, mode, delay_run, limiter, acq,
                   sse, sleeping_for,
                   in_flight, classified_by>>

\* limiter.wait_if_needed() by caller c, up to its return or its sleep; the
\* subtraction of a longer elapsed time panics
wait_if_needed(c) ==
    /\ mode = "limiter"
    /\ acq.pc = "idle"
    /\ acq.n < MaxCalls
    /\ LET now == clock
           elapsed == now - limiter.last_request
           l == reset_if_window_passed(limiter, now, elapsed)
           call == [pc |-> "idle", n |-> acq.n + 1, caller |-> c, start |-> now,
                    elapsed |-> elapsed, wait |-> 0]
       IN  IF limit_reached(l)
           THEN LET wait_time == duration_sub(Window, elapsed) IN
                /\ limiter' = l
                /\ IF wait_time = None
                   THEN acq' = [call EXCEPT !.pc = "panicked"]
                   ELSE acq' = [call EXCEPT !.pc = "sleeping", !.wait = wait_time[1]]
           ELSE /\ limiter' = [l EXCEPT !.request_count = l.request_count + 1]
                /\ acq' = call
    /\ UNCHANGED <<auth_config, retry_config, rate_limiter, script, op, pc, attempt,
                   last_error, invocations, sleeps, acquired, result, response,
                   classified, mode, delay_run, clock,
                   sse, sleeping_for,
                   in_flight, classified_by>>

\* tokio::time::sleep(wait_time) is over: the counter starts over at the
\* instant of waking, the call is counted and returns Ok(())
wake ==
    /\ mode = "limiter"
    /\ acq.pc = "sleeping"
    /\ \E late \in Lateness :
           /\ clock' = clock + acq.wait + late
           /\ limiter' = [limiter EXCEPT !.request_count = 0 + 1,
                                         !.last_request = clock']
    /\ acq' = [acq EXCEPT !.pc = "idle"]
    /\ UNCHANGED <<auth_config, retry_config, rate_limiter, script, op, pc, attempt,
                   last_error, invocations, sleeps, acquired, result, response,
                   classified, mode, delay_run,
                   sse, sleeping_for,
                   in_flight, classified_by>>

NextLimiter ==
    \/ \E d \in TickSteps : tick(d)
    \/ \E c \in Callers : wait_if_needed(c)
    \/ wake

SpecLimiter == InitLimiter /\ [][NextLimiter]_vars

(***************************************************************************)
(* Stream runs: one call of create_chat_completion_stream and the          *)
(* consumption of the stream it returns.  What the body delivers after an  *)
(* error item is the transport's to choose.                                *)
(***************************************************************************)
InitStream ==
    /\ mode = "stream"
    /\ auth_config = [enable_retry |-> TRUE, max_retries |-> 0]
    /\ retry_config = [max_retries |-> 0]
    /\ rate_limiter \in {None, Some("governor")}
    /\ \E x \in Exchanges : script = [i \in 1..(MaxRetries + 1) |-> x]
    /\ \E source \in SseFeeds(MaxEvents) : sse = [NoStream EXCEPT !.source = source]
    /\ sleeping_for = None
    /\ in_flight = {}
    /\ op = "none"
    /\ pc = "idle"
    /\ attempt = 0
    /\ last_error = None
    /\ invocations = 0
    /\ sleeps = 0
    /\ acquired = 0
    /\ result = None
    /\ PipelineIdle
    /\ StandaloneIdle

\* ChatEndpoint::create_chat_completion_stream up to its HTTP call: the POST
\* is issued and the call suspends in send().await.  build_headers() validates
\* the two header values with_config has validated already, so it returns Ok
\* here.
create_chat_completion_stream ==
    /\ mode = "stream"
    /\ pc = "idle"
    /\ op' = "create_chat_completion_stream"
    /\ invocations' = invocations + 1
    /\ pc' = "sending"
    /\ UNCHANGED <<auth_config, retry_config, rate_limiter, script, attempt,
                   last_error, sleeps, acquired, result, response, classified, mode,
                   standalone, sse, sleeping_for,
                   in_flight, classified_by>>

\* the answer arrives and the call returns: the error of the send, the
\* classification of a non-success status, or on a success status the stream
\* over the response body
create_chat_completion_stream_returns ==
    /\ mode = "stream"
    /\ pc = "sending"
    /\ LET x == exchange(1) IN
       IF x.sent = "error"
       THEN /\ result' = Some(Err(from_reqwest_error(x.err)))
            /\ pc' = "done"
            /\ sse' = sse
       ELSE IF ~is_success(x.response.status)
       THEN /\ result' = Some(Err(handle_response(x.response).error))
            /\ pc' = "done"
            /\ sse' = sse
       ELSE /\ result' = Some(Ok("stream"))
            /\ pc' = "streaming"
            /\ sse' = [sse EXCEPT !.state = "open"]
    /\ UNCHANGED <<auth_config, retry_config, rate_limiter, script, op, attempt,
                   last_error, invocations, sleeps, acquired, response, classified, mode,
                   standalone, sleeping_for,
                   in_flight, classified_by>>

\* the consumer polls the stream and the transport has one more item: it goes
\* through the closure, and is yielded unless the closure drops it
next_event ==
    /\ mode = "stream"
    /\ pc = "streaming"
    /\ sse.pos < Len(sse.source)
    /\ LET at == sse.pos + 1
           item == sse_item(sse.source[at])
       IN  sse' = [sse EXCEPT !.pos = at,
                              !.yielded = IF item = None THEN @
                                          ELSE Append(@, [at |-> at, item |-> item[1]])]
    /\ UNCHANGED <<auth_config, retry_config, rate_limiter, script, op, pc, attempt,
                   last_error, invocations, sleeps, acquired, result, response,
                   classified, mode, standalone, sleeping_for,
                   in_flight, classified_by>>

\* the consumer polls the stream and the body has ended: the stream ends
end_of_stream ==
    /\ mode = "stream"
    /\ pc = "streaming"
    /\ sse.pos = Len(sse.source)
    /\ sse' = [sse EXCEPT !.state = "ended"]
    /\ pc' = "done"
    /\ UNCHANGED <<auth_config, retry_config, rate_limiter, script, op, attempt,
                   last_error, invocations, sleeps, acquired, result, response,
                   classified, mode, standalone, sleeping_for,
                   in_flight, classified_by>>

NextStream ==
    \/ create_chat_completion_stream
    \/ create_chat_completion_stream_returns
    \/ next_event
    \/ end_of_stream

SpecStream == InitStream /\ [][NextStream]_vars

(***************************************************************************)
(* Retry budget and the value returned (checked under Spec).               *)
(***************************************************************************)
Min(a, b) == IF a <= b THEN a ELSE b

\* the i-th scripted invocation fails with a retryable error
FailsRetryably(i) ==
    LET r == operation(script[i]) IN ~r.ok /\ is_retryable(r.error)

\* the first invocation that succeeds or fails with a non-retryable error; one
\* past the script when there is none
FirstFinal ==
    IF \E i \in DOMAIN script : ~FailsRetryably(i)
    THEN CHOOSE i \in DOMAIN script :
             /\ ~FailsRetryably(i)
             /\ \A j \in 1..(i - 1) : FailsRetryably(j)
    ELSE Len(script) + 1

\* min(k+1, max_retries+1), k = FirstFinal - 1 retryable failures in a row
ExpectedInvocations == Min(FirstFinal, retry_config.max_retries + 1)

\* the call in progress runs its HTTP operation under retry_with_backoff
RetryWrapped ==
    \/ op = "retry_with_backoff"
    \/ op \in {"chat_completion", "get_available_models"} /\ auth_config.enable_retry

\* C1: retry_with_backoff invokes the operation exactly min(k+1, max_retries+1)
\* times, k the number of consecutive retryable failures before the first success
\* or non-retryable error (which, met at invocation i, ends the call after i
\* invocations); it never invokes it more often on the way.
C1_RetryBudget ==
    RetryWrapped =>
        /\ invocations <= ExpectedInvocations
        /\ pc = "done" => invocations = ExpectedInvocations

\* C1 witness: with a budget of 2 retries the second invocation met a
\* non-retryable error and the call ended after exactly 2 invocations.
C1_Witness ==
    /\ pc = "done"
    /\ op = "retry_with_backoff"
    /\ retry_config.max_retries = 2
    /\ invocations = 2
    /\ FirstFinal = 2
    /\ ~result[1].ok
    /\ ~is_retryable(result[1].error)

\* C2: retry_with_backoff returns the outcome of its last invocation: the first
\* success, a non-retryable error unchanged, or, when every attempt fails
\* retryably, the error of invocation max_retries+1, never the error after the loop.
C2_ReturnsLastOutcome ==
    (pc = "done" /\ RetryWrapped) =>
        /\ result = Some(operation(exchange(invocations)))
        /\ result = Some(operation(script[ExpectedInvocations]))
        /\ result # Some(Err(AllRetryAttemptsFailed))

\* C2 witness: every attempt failed retryably, the last error differs from the
\* first, and the last one was returned.
C2_Witness ==
    /\ pc = "done"
    /\ op = "chat_completion"
    /\ retry_config.max_retries = 2
    /\ \A i \in 1..3 : FailsRetryably(i)
    /\ invocations = 3
    /\ operation(script[1]) # operation(script[3])
    /\ operation(script[2]) # operation(script[3])
    /\ result = Some(operation(script[3]))

\* C3 (as claimed): with retry enabled, a make_request whose every attempt fails
\* retryably has made max_retries+1 HTTP attempts when it returns.
C3_MakeRequestRetries ==
    ( /\ pc = "done"
      /\ op = "make_request"
      /\ auth_config.enable_retry
      /\ \A i \in 1..(retry_config.max_retries + 1) : FailsRetryably(i) )
    => invocations = retry_config.max_retries + 1

\* C4: with enable_retry = false, chat_completion and get_available_models issue
\* the HTTP operation exactly once, whatever its outcome and whatever max_retries
\* is, never sleep, and return that outcome.
C4_NoRetryWhenDisabled ==
    (op \in {"chat_completion", "get_available_models"} /\ ~auth_config.enable_retry) =>
        /\ invocations <= 1
        /\ sleeps = 0
        /\ pc = "done" => /\ invocations = 1
                          /\ result = Some(operation(script[1]))

\* C4 witness: retry is disabled, the budget is 2, the only attempt failed with a
\* retryable error and that error was returned.
C4_Witness ==
    /\ pc = "done"
    /\ op = "get_available_models"
    /\ ~auth_config.enable_retry
    /\ retry_config.max_retries = 2
    /\ auth_config.max_retries = 2
    /\ FailsRetryably(1)
    /\ invocations = 1
    /\ result = Some(operation(script[1]))

(***************************************************************************)
(* Classification of non-2xx responses (checked under SpecClassify).       *)
(***************************************************************************)
NonSuccess == ~(response.status >= 200 /\ response.status <= 299)

\* the body is a structured error document
Structured ==
    /\ response.body.text = "error_doc"
    /\ response.body.code # MissingCode
    /\ response.body.retryable # "bad"

\* the body's retryable field when present, and status >= 500 otherwise
BodyOrStatusRetryable ==
    IF Structured /\ response.body.retryable # "absent"
    THEN response.body.retryable = "true"
    ELSE response.status >= 500

\* C5 (as claimed): a 429 whose body is no structured error document is
\* classified RateLimit with retry_after = None and is retryable.
C5_Unparseable429 ==
    \A i \in DOMAIN classified :
        (response.status = 429 /\ ~Structured) =>
            /\ ~classified[i].ok
            /\ classified[i].error.variant = "RateLimit"
            /\ classified[i].error.retry_after = None
            /\ is_retryable(classified[i].error)

\* C6 (as claimed): with a body that is no structured error document, 401 and
\* 403 are classified Authentication, 400 is classified InvalidRequest with the
\* raw body text as its message, and none of them is retryable.
C6_UnparseableDedicated ==
    \A i \in DOMAIN classified :
        ~Structured =>
            /\ response.status \in {401, 403} =>
                   /\ ~classified[i].ok
                   /\ classified[i].error.variant = "Authentication"
                   /\ ~is_retryable(classified[i].error)
            /\ response.status = 400 =>
                   /\ ~classified[i].ok
                   /\ classified[i].error.variant = "InvalidRequest"
                   /\ response.body.text \in {"garbage", "payload", "error_doc"}
                          => classified[i].error.message = response.body.text
                   /\ ~is_retryable(classified[i].error)

\* C7: for a non-2xx response with a structured error body the retryability is
\* fixed by the code, whatever the body's retryable field and the status:
\* INVALID_API_KEY and EXPIRED_API_KEY give Authentication, never retryable;
\* INVALID_REQUEST, MISSING_REQUIRED_FIELD and INVALID_MODEL give InvalidRequest,
\* never retryable; RATE_LIMIT_EXCEEDED gives RateLimit, always retryable, with
\* retry_after the unsigned integer details.retry_after holds, None without one.
C7_FixedRetryability ==
    \A i \in DOMAIN classified :
        (NonSuccess /\ Structured) =>
            LET code == response.body.code
                e == classified[i].error
                ra == details_get(response.body.details, "retry_after")
            IN  /\ ~classified[i].ok
                /\ code \in {"INVALID_API_KEY", "EXPIRED_API_KEY"} =>
                       /\ e.variant = "Authentication"
                       /\ ~is_retryable(e)
                /\ code \in {"INVALID_REQUEST", "MISSING_REQUIRED_FIELD",
                             "INVALID_MODEL"} =>
                       /\ e.variant = "InvalidRequest"
                       /\ ~is_retryable(e)
                /\ code = "RATE_LIMIT_EXCEEDED" =>
                       /\ e.variant = "RateLimit"
                       /\ is_retryable(e)
                       /\ e.retry_after =
                              IF ra.json = "number" /\ ra.n >= 0 THEN Some(ra.n)
                              ELSE None

\* C7 witness: a 400 whose body says RATE_LIMIT_EXCEEDED, retryable: false and
\* details.retry_after = 30 was classified RateLimit{retry_after: Some(30)}.
C7_Witness ==
    /\ Len(classified) >= 1
    /\ response.status = 400
    /\ response.body.code = "RATE_LIMIT_EXCEEDED"
    /\ response.body.retryable = "false"
    /\ details_get(response.body.details, "retry_after") = JNum(30)
    /\ classified[1].error.variant = "RateLimit"
    /\ classified[1].error.retry_after = Some(30)

\* C8: a structured error body with code PROVIDER_ERROR or PROVIDER_UNAVAILABLE
\* is classified Provider, retryable as the body's retryable field says when it
\* is present and as status >= 500 otherwise, with provider details.provider
\* when that is a string and "unknown" otherwise.
C8_ProviderClassification ==
    \A i \in DOMAIN classified :
        ( /\ NonSuccess
          /\ Structured
          /\ response.body.code \in {"PROVIDER_ERROR", "PROVIDER_UNAVAILABLE"} ) =>
            LET e == classified[i].error
                p == details_get(response.body.details, "provider")
            IN  /\ ~classified[i].ok
                /\ e.variant = "Provider"
                /\ e.retryable = BodyOrStatusRetryable
                /\ is_retryable(e) = BodyOrStatusRetryable
                /\ e.provider = IF p.json = "string" THEN p.s ELSE "unknown"

\* C8 witness: status 500, code PROVIDER_ERROR, retryable: true and no details
\* gave Provider{retryable: true, provider: "unknown"}.
C8_Witness ==
    /\ Len(classified) >= 1
    /\ response.status = 500
    /\ response.body.code = "PROVIDER_ERROR"
    /\ response.body.retryable = "true"
    /\ response.body.details = None
    /\ classified[1].error.variant = "Provider"
    /\ classified[1].error.retryable
    /\ classified[1].error.provider = "unknown"

\* C9 (as claimed): every Api record of a non-2xx response carries the HTTP
\* status as status_code, retryable = the parsed body's retryable field when
\* present and status >= 500 otherwise, and request_id = the x-request-id
\* header's value when present, None when absent.
C9_ApiCatchAll ==
    \A i \in DOMAIN classified :
        (NonSuccess /\ ~classified[i].ok /\ classified[i].error.variant = "Api") =>
            LET e == classified[i].error IN
            /\ e.status_code = response.status
            /\ e.retryable = BodyOrStatusRetryable
            /\ response.request_id = "absent" => e.request_id = None
            /\ response.request_id = "req-1" => e.request_id = Some("req-1")

Variants == {"Authentication", "InvalidRequest", "Provider", "RateLimit",
             "InsufficientCredits", "Network", "Api", "Timeout", "Serialization"}

\* C10: handle_response gives every non-2xx response an Err (never Ok) holding
\* exactly one RainyError variant with a boolean is_retryable(), and classifying
\* the same response again, by the same client or by one configured otherwise,
\* gives the same variant, fields and is_retryable().
C10_TotalDeterministic ==
    NonSuccess =>
        /\ \A i \in DOMAIN classified :
               /\ ~classified[i].ok
               /\ DOMAIN classified[i] = {"ok", "error"}
               /\ classified[i].error.variant \in Variants
               /\ is_retryable(classified[i].error) \in BOOLEAN
        /\ \A i, j \in DOMAIN classified :
               /\ classified[i] = classified[j]
               /\ is_retryable(classified[i].error) = is_retryable(classified[j].error)

\* C10 witness: a 503 whose body would parse as the expected type was classified
\* by two clients of different timeout and retry setting, both times as the
\* same retryable error.
C10_Witness ==
    /\ Len(classified) = 2
    /\ classified_by[1] # classified_by[2]
    /\ classified_by[1].auth_config.enable_retry # classified_by[2].auth_config.enable_retry
    /\ response.status = 503
    /\ response.body.text = "payload"
    /\ ~classified[1].ok
    /\ is_retryable(classified[1].error)
    /\ classified[1] = classified[2]

(***************************************************************************)
(* Classification of transport failures (checked under SpecClassify).      *)
(***************************************************************************)
\* the transport failed with the reqwest::Error script[1].err
TransportFailed == script[1].sent = "error"

\* C11 (as claimed): a transport failure is classified Timeout, always
\* retryable, when it is a timeout; Network with retryable = true when it is a
\* connection or DNS failure; Network with retryable = false in every other case.
C11_ConnectOnlyRetryable ==
    \A i \in DOMAIN classified :
        TransportFailed =>
            LET err == script[1].err
                e == classified[i].error
            IN  /\ ~classified[i].ok
                /\ err.timeout => e.variant = "Timeout" /\ is_retryable(e)
                /\ ~err.timeout =>
                       /\ e.variant = "Network"
                       /\ e.retryable = err.connect
                       /\ is_retryable(e) = err.connect

\* C11 (amended): a transport failure is classified Timeout, always retryable,
\* when it is a timeout; otherwise Network, with retryable = true when it is a
\* connect failure or any other failure of sending the request (is_request()),
\* and retryable = false for builder, redirect, body and decode errors.
C11_TransportClassification ==
    \A i \in DOMAIN classified :
        TransportFailed =>
            LET err == script[1].err
                e == classified[i].error
            IN  /\ ~classified[i].ok
                /\ err.timeout =>
                       /\ e.variant = "Timeout"
                       /\ is_retryable(e)
                /\ (~err.timeout /\ (err.connect \/ err.kind = "Request")) =>
                       /\ e.variant = "Network"
                       /\ e.retryable
                       /\ is_retryable(e)
                /\ (~err.timeout /\ err.kind \in {"Builder", "Redirect", "Body", "Decode"}) =>
                       /\ e.variant = "Network"
                       /\ ~e.retryable
                       /\ ~is_retryable(e)

\* C11 witness: sending failed after the connection was made, with no deadline
\* passed, and the failure was classified a retryable Network error.
C11_Witness ==
    /\ Len(classified) >= 1
    /\ TransportFailed
    /\ script[1].err = [kind |-> "Request", timeout |-> FALSE, connect |-> FALSE]
    /\ classified[1].error.variant = "Network"
    /\ classified[1].error.retryable

(***************************************************************************)
(* Undecodable success bodies (checked under Spec).                        *)
(***************************************************************************)
\* the i-th scripted answer is a 2xx response whose body was read and is not a
\* document of the expected type
UndecodableSuccess(i) ==
    /\ script[i].sent = "response"
    /\ is_success(script[i].response.status)
    /\ read_text(script[i].response.body).ok
    /\ ~parse_T(read_text(script[i].response.body).value)

\* C12: a 2xx response whose body does not deserialize into the expected type
\* yields a Serialization error, and under retry_with_backoff, whatever
\* max_retries is, the invocation that meets it is the last one and the
\* Serialization error is returned: met at the first invocation, the operation
\* is invoked exactly once.
C12_SerializationNotRetried ==
    /\ \A i \in DOMAIN script :
           UndecodableSuccess(i) =>
               /\ ~operation(script[i]).ok
               /\ operation(script[i]).error.variant = "Serialization"
               /\ ~is_retryable(operation(script[i]).error)
    /\ RetryWrapped =>
           \A i \in 1..invocations :
               UndecodableSuccess(i) =>
                   /\ invocations = i
                   /\ sleeps = i - 1
                   /\ i \in in_flight \/
                          /\ pc = "done"
                          /\ result = Some(operation(script[i]))
                          /\ result[1].error.variant = "Serialization"

\* C12 witness: with retry enabled and a budget of 2 retries the first answer
\* was a 200 with an undecodable body; the call ended after one invocation, no
\* sleep, with the Serialization error.
C12_Witness ==
    /\ pc = "done"
    /\ op = "chat_completion"
    /\ auth_config.enable_retry
    /\ retry_config.max_retries = 2
    /\ UndecodableSuccess(1)
    /\ invocations = 1
    /\ sleeps = 0
    /\ ~result[1].ok
    /\ result[1].error.variant = "Serialization"

(***************************************************************************)
(* Backoff delays (checked under SpecDelay).                               *)
(***************************************************************************)
\* the delays returned do not decrease from one attempt number to the next
DelaysNondecreasing ==
    \A i \in 1..(Len(delay_run) - 1) : u64_le(delay_run[i].delay, delay_run[i + 1].delay)

\* every delay returned is at most max_delay_ms
DelaysCapped ==
    \A i \in DOMAIN delay_run : u64_le(delay_run[i].delay, retry_config.max_delay_ms)

\* every attempt number asked is below 2^31
AttemptsBelowWrap == \A i \in DOMAIN delay_run : ~delay_run[i].attempt.wrapped

\* x is below 2^53 = 8192 * 2^40, where `as f64` is exact
BelowTwo53(x) == x.high < 8192

\* C13 (as claimed): with jitter disabled, for every RetryConfig,
\* delay_for_attempt(n+1) >= delay_for_attempt(n) and delay_for_attempt(n) <=
\* max_delay_ms for all n.
C13_MonotoneEveryConfig ==
    ~retry_config.jitter => DelaysNondecreasing /\ DelaysCapped

\* C13 (amended): with jitter disabled, delay_for_attempt(n) <= max_delay_ms for
\* every RetryConfig with max_delay_ms below 2^53 and all n, and
\* delay_for_attempt(n+1) >= delay_for_attempt(n) when backoff_multiplier >= 1
\* and n+1 < 2^31.
C13_MonotoneGrowingMultiplier ==
    ~retry_config.jitter =>
        /\ BelowTwo53(retry_config.max_delay_ms) => DelaysCapped
        /\ ( /\ retry_config.backoff_multiplier.num >= retry_config.backoff_multiplier.den
              /\ AttemptsBelowWrap ) => DelaysNondecreasing

\* C13 witness: without jitter, with base 1000 ms, multiplier 1.5 and cap 30 s
\* the delay grew from 7593 ms at attempt 5 to 11390 ms at attempt 6.
C13_Witness ==
    /\ ~retry_config.jitter
    /\ retry_config.backoff_multiplier = F64(3, 2)
    /\ retry_config.base_delay_ms = U64(0, 1000)
    /\ Len(delay_run) = 2
    /\ delay_run[1].attempt = U32(FALSE, 5)
    /\ delay_run[1].delay = U64(0, 7593)
    /\ delay_run[2].delay = U64(0, 11390)
    /\ retry_config.max_delay_ms = U64(0, 30000)

\* j * a <= k * b, and j * a < k * b, for u64 a and b and small factors
scaled_le(j, a, k, b) ==
    j * a.high < k * b.high \/ (j * a.high = k * b.high /\ j * a.low <= k * b.low)
scaled_lt(j, a, k, b) ==
    j * a.high < k * b.high \/ (j * a.high = k * b.high /\ j * a.low < k * b.low)

\* d lies in [0.75, 1.25] * u clamped to max, u = un/ud; with `truncated` the
\* lower end is rounded down to whole milliseconds (d >= floor(x) is d + 1 > x)
InBand(un, ud, max, d, truncated) ==
    /\ IF scaled_le(4 * ud, max, 3, un) THEN u64_le(max, d)
       ELSE IF truncated THEN scaled_lt(3, un, 4 * ud, U64(d.high, d.low + 1))
       ELSE scaled_le(3, un, 4 * ud, d)
    /\ u64_le(d, max)
    /\ scaled_le(4 * ud, d, 5, un)

\* d is within the jitter band around base_delay * multiplier^n, the power
\* taken over the reals: far past the range of f64 it is 1, beyond every cap,
\* or positive and below every millisecond
JitterBand(config, n, d, truncated) ==
    LET x == config.backoff_multiplier
        base == config.base_delay_ms
        max == config.max_delay_ms
    IN  IF ~n.wrapped /\ n.low <= 15
        THEN InBand(U64(base.high * Pow(x.num, n.low), base.low * Pow(x.num, n.low)),
                    Pow(x.den, n.low), max, d, truncated)
        ELSE IF x.num = x.den THEN InBand(base, 1, max, d, truncated)
        ELSE IF base = U64(0, 0) THEN d = U64(0, 0)
        ELSE IF x.num > x.den THEN d = max
        ELSE IF x.num >= 0 /\ (max = U64(0, 0) \/ truncated) THEN d = U64(0, 0)
        ELSE FALSE

\* min(base_delay, max_delay)
MinBaseMax(config) ==
    IF u64_le(config.base_delay_ms, config.max_delay_ms) THEN config.base_delay_ms
    ELSE config.max_delay_ms

ConversionsExact(config) ==
    /\ f64_eq(u64_as_f64(config.base_delay_ms),
              F64Big(config.base_delay_ms.high, config.base_delay_ms.low, 1))
    /\ f64_eq(u64_as_f64(config.max_delay_ms),
              F64Big(config.max_delay_ms.high, config.max_delay_ms.low, 1))

\* the real value x is an f64: rounding leaves it as it is (below 2^40 every
\* value drawn is one)
IsF64(x) == x.class = "finite" => (x.high = 0 \/ f64_eq(f64_round(x), x))

\* neither f64 product of delay_for_attempt(n) with the factor f is rounded
ProductsExact(config, n, f) ==
    LET base_delay == u64_as_f64(config.base_delay_ms)
        multiplier == powi(config.backoff_multiplier, n)
        delay == f64_mul_exact(base_delay, multiplier)
        jittered == f64_mul_exact(f64_round(delay), f)
    IN  IsF64(delay) /\ IsF64(jittered)

\* n = 0: no jitter, the delay is min(base_delay, max_delay)
C14_FirstAttempt(i) ==
    delay_run[i].attempt = U32(FALSE, 0) => delay_run[i].delay = MinBaseMax(retry_config)

\* the delay is at most max_delay
C14_Capped(i) == u64_le(delay_run[i].delay, retry_config.max_delay_ms)

\* 0 < n < 2^31: the delay is in the truncated band, or is max_delay when
\* base_delay is 0 and multiplier^n overflows
C14_Band(i) ==
    LET n == delay_run[i].attempt
        d == delay_run[i].delay
    IN  (n # U32(FALSE, 0) /\ ~n.wrapped) =>
            IF /\ retry_config.base_delay_ms = U64(0, 0)
               /\ powi(retry_config.backoff_multiplier, n) = Infinity
            THEN d = retry_config.max_delay_ms
            ELSE JitterBand(retry_config, n, d, TRUE)

\* the delay the code returns when the product of the unjittered f64 delay u
\* and the factor f is clamped and truncated
ClampedProduct(config, n, f) ==
    LET u == f64_mul(u64_as_f64(config.base_delay_ms), powi(config.backoff_multiplier, n))
    IN  f64_as_u64(f64_min(f64_mul(u, f), u64_as_f64(config.max_delay_ms)))

\* n > 0: the delay lies between the clamped and truncated f64 products
\* 0.75 * u and 1.25 * u
C14_F64Band(i) ==
    LET n == delay_run[i].attempt
        d == delay_run[i].delay
    IN  n # U32(FALSE, 0) =>
            /\ u64_le(ClampedProduct(retry_config, n, F64(3, 4)), d)
            /\ u64_le(d, ClampedProduct(retry_config, n, F64(5, 4)))

C14_FirstAttemptEveryConfig ==
    retry_config.jitter => \A i \in DOMAIN delay_run : C14_FirstAttempt(i)
C14_CappedEveryConfig ==
    retry_config.jitter => \A i \in DOMAIN delay_run : C14_Capped(i)
C14_BandAnyMultiplier ==
    retry_config.jitter =>
        \A i \in DOMAIN delay_run :
            ( /\ ConversionsExact(retry_config)
              /\ ProductsExact(retry_config, delay_run[i].attempt,
                               delay_run[i].jitter_factor) ) => C14_Band(i)
C14_BandAnyConversion ==
    retry_config.jitter =>
        \A i \in DOMAIN delay_run :
            ( /\ retry_config.backoff_multiplier.num >= 0
              /\ ProductsExact(retry_config, delay_run[i].attempt,
                               delay_run[i].jitter_factor) ) => C14_Band(i)
C14_BandAnyProduct ==
    retry_config.jitter =>
        \A i \in DOMAIN delay_run :
            ( /\ retry_config.backoff_multiplier.num >= 0
              /\ ConversionsExact(retry_config) ) => C14_Band(i)

\* C15 (as claimed): under the default retry parameters, whatever the jitter
\* factors drawn, delay_for_attempt(0) >= 1000 ms, delay_for_attempt(n+1) >=
\* delay_for_attempt(n) for every n, and every delay is <= max_delay_ms.
C15_DefaultMonotone ==
    retry_config = DefaultRetryConfig =>
        /\ \A i \in DOMAIN delay_run :
               delay_run[i].attempt = U32(FALSE, 0) =>
                   u64_le(U64(0, 1000), delay_run[i].delay)
        /\ DelaysNondecreasing
        /\ DelaysCapped

(***************************************************************************)
(* Credentials (checked under SpecAuth).                                   *)
(***************************************************************************)
\* "ra-test-key", "invalid-key", "bad-format"
RaTestKey == <<114, 97, 45, 116, 101, 115, 116, 45, 107, 101, 121>>
InvalidKey == <<105, 110, 118, 97, 108, 105, 100, 45, 107, 101, 121>>
BadFormat == <<98, 97, 100, 45, 102, 111, 114, 109, 97, 116>>

\* C16: validate() fails with Authentication when api_key is empty or does not
\* start with "ra-", whatever base_url is; fails with InvalidRequest when the
\* key is well-formed and base_url does not parse as a URL; returns Ok
\* otherwise.  "bad-format" and "invalid-key" fail, "ra-test-key" passes.
C16_Validate ==
    (pc = "done" /\ op = "validate") =>
        LET key == auth_config.api_key
            well_formed == key # <<>> /\ starts_with(key, KeyPrefix)
            r == result[1]
        IN  /\ ~well_formed =>
                   /\ ~r.ok
                   /\ r.error.variant = "Authentication"
            /\ (well_formed /\ url_parse_is_err(auth_config.base_url)) =>
                   /\ ~r.ok
                   /\ r.error.variant = "InvalidRequest"
            /\ (well_formed /\ ~url_parse_is_err(auth_config.base_url)) => r.ok
            /\ key \in {BadFormat, InvalidKey} => ~r.ok
            /\ (key = RaTestKey /\ auth_config.base_url = DefaultBaseUrl) => r.ok

\* C16 witness: a configuration with the key "invalid-key" and a base URL that
\* does not parse was refused with Authentication.
C16_Witness ==
    /\ pc = "done"
    /\ op = "validate"
    /\ auth_config.api_key = InvalidKey
    /\ auth_config.base_url = "not a url"
    /\ ~result[1].ok
    /\ result[1].error.variant = "Authentication"
    /\ result[1].error.code = "INVALID_API_KEY_FORMAT"

\* every byte of the string may stand in a header value
HeaderLegal(str) == \A i \in DOMAIN str : is_valid(str[i])

\* the header set build_headers returned is complete or there is none
C17_HeadersState ==
    (pc = "done" /\ op = "build_headers") =>
        LET r == result[1] IN
        IF HeaderLegal(auth_config.api_key) /\ HeaderLegal(auth_config.user_agent)
        THEN /\ r.ok
             /\ DOMAIN r.value = {"authorization", "content-type", "user-agent"}
             /\ r.value["authorization"] = Bearer \o auth_config.api_key
             /\ r.value["content-type"] = ApplicationJson
             /\ r.value["user-agent"] = auth_config.user_agent
        ELSE /\ ~r.ok
             /\ r.error.variant = "InvalidRequest"

\* C17: build_headers() returns either a header set holding all three of
\* Authorization = "Bearer " + api_key, Content-Type = application/json and
\* User-Agent = the configured user agent, or an InvalidRequest error, the
\* latter exactly when the key or the user agent holds a byte illegal in a
\* header value; never a partial set or another error; and the call leaves the
\* configuration as it was.
C17_BuildHeaders ==
    /\ []C17_HeadersState
    /\ [][op' = "build_headers" => auth_config' = auth_config]_vars

\* C17 witness: the user agent was legal and the key held a line feed;
\* build_headers returned InvalidRequest and no header set.
C17_Witness ==
    /\ pc = "done"
    /\ op = "build_headers"
    /\ HeaderLegal(auth_config.user_agent)
    /\ ~HeaderLegal(auth_config.api_key)
    /\ ~result[1].ok
    /\ result[1].error.variant = "InvalidRequest"
    /\ result[1].error.code = "INVALID_HEADER"

(***************************************************************************)
(* The fixed-window limiter (checked under SpecLimiter).  The limiter is   *)
(* made at second 0, so its first window is [0, 60).                       *)
(***************************************************************************)
\* C18: for a fresh limiter with requests_per_minute = N, the first N calls of
\* wait_if_needed issued within its first 60 s window never suspend, and the
\* (N+1)-th call issued within that window suspends for exactly 60 s minus the
\* time elapsed since the window began, and is admitted after it.
C18_WindowAdmission ==
    (acq.n >= 1 /\ acq.start < Window) =>
        /\ acq.n <= limiter.requests_per_minute =>
               /\ acq.pc = "idle"
               /\ acq.wait = 0
               /\ limiter.request_count = acq.n
        /\ acq.n = limiter.requests_per_minute + 1 =>
               /\ acq.pc \in {"sleeping", "idle"}
               /\ acq.wait = Window - acq.start
               /\ acq.pc = "sleeping" => clock = acq.start
               /\ acq.pc = "idle" =>
                      /\ clock >= acq.start + acq.wait
                      /\ limiter.request_count = 1

\* C18 witness: with N = 2 the third call came 40 s into the window, slept the
\* remaining 20 s and was admitted.
C18_Witness ==
    /\ limiter.requests_per_minute = 2
    /\ acq.n = 3
    /\ acq.start = 40
    /\ acq.wait = 20
    /\ acq.pc = "idle"
    /\ clock >= 60
    /\ limiter.request_count = 1

\* C19 (as claimed): whatever requests_per_minute is, 0 included, and whatever
\* time has passed since the window began, more than 60 s included,
\* wait_if_needed never aborts and its wait is never negative.
C19_AcquisitionNeverFails ==
    /\ acq.pc # "panicked"
    /\ acq.wait >= 0

\* C20 (as claimed): after any sequence of acquisitions, by whichever callers
\* in whatever order, the number of calls admitted in the current window
\* (request_count) is at most requests_per_minute.
C20_NeverBeyondRate ==
    limiter.request_count <= limiter.requests_per_minute

(***************************************************************************)
(* The limiter gate of the client operations (checked under Spec).         *)
(***************************************************************************)
\* C21 (as claimed): when the client holds a rate limiter, every operation that
\* issues an HTTP request has acquired it before its first transport call;
\* without a limiter nothing is awaited.
C21_LimiterBeforeTransport ==
    op \in {"chat_completion", "make_request", "get_available_models",
            "get_cowork_capabilities", "web_search", "extract_content"} =>
        /\ (rate_limiter # None /\ invocations >= 1) => acquired >= 1
        /\ rate_limiter = None => acquired = 0

(***************************************************************************)
(* The chat stream (checked under SpecStream).                             *)
(***************************************************************************)
\* the items the stream has yielded, in order
Yielded == [i \in 1..Len(sse.yielded) |-> sse.yielded[i].item]
\* a transport item that is an event whose payload is the sentinel itself
IsDone(item) == item.ok /\ item.value.data = EventData("", DoneSentinel, "")
\* a transport item that is an event whose payload reads as the event type
WellFormed(item) == item.ok /\ serde_from_str(item.value.data).ok
\* the stream was returned and the transport delivers one well-formed event,
\* then the sentinel, then ends
OneEventThenDone ==
    /\ sse.state # "none"
    /\ Len(sse.source) = 2
    /\ WellFormed(sse.source[1])
    /\ IsDone(sse.source[2])

\* C22: a stream fed one event with a valid JSON payload, then [DONE], then the
\* end of the body yields exactly one Ok item, the parsed event, and ends with
\* no further item: the sentinel yields nothing.
C22_OneItemThenEnd ==
    OneEventThenDone =>
        /\ Yielded = IF sse.pos = 0 THEN <<>>
                     ELSE <<Ok(serde_from_str(sse.source[1].value.data).value)>>
        /\ sse.state = "ended" => sse.pos = 2
\* C22 witness: such a stream has ended after its one item
C22_Witness ==
    /\ OneEventThenDone
    /\ sse.state = "ended"
    /\ Len(sse.yielded) = 1
    /\ sse.yielded[1].item.ok

\* C23 (as claimed): once an event with payload [DONE] has been received the
\* stream yields no further item, whatever the transport delivers after it.
C23_DoneTerminates ==
    \A i \in 1..Len(sse.yielded) :
        \A j \in 1..(sse.yielded[i].at - 1) : ~IsDone(sse.source[j])

\* the yielded items that came from the j-th transport item
ItemsAt(j) == {i \in 1..Len(sse.yielded) : sse.yielded[i].at = j}
\* the items were yielded in the order their events arrived
InArrivalOrder ==
    \A i, k \in 1..Len(sse.yielded) : i < k => sse.yielded[i].at < sse.yielded[k].at
\* exactly one item came from the j-th transport item, a Serialization error
YieldsSerialization(j) ==
    /\ Cardinality(ItemsAt(j)) = 1
    /\ \A i \in ItemsAt(j) : /\ ~sse.yielded[i].item.ok
                             /\ sse.yielded[i].item.error.variant = "Serialization"
\* exactly one item came from the j-th transport item, its parsed event
YieldsEvent(j) ==
    /\ Cardinality(ItemsAt(j)) = 1
    /\ \A i \in ItemsAt(j) :
           sse.yielded[i].item = Ok(serde_from_str(sse.source[j].value.data).value)
\* an event whose payload is neither the sentinel itself nor well formed
MalformedLiteral(item) == item.ok /\ ~IsDone(item) /\ ~WellFormed(item)
\* an event whose payload is neither the sentinel once trimmed nor well formed
MalformedTrimmed(item) ==
    item.ok /\ trim(item.value.data) # DoneSentinel /\ ~WellFormed(item)

\* C24 (as claimed): every consumed event whose payload is neither [DONE] nor
\* valid JSON yields exactly one Serialization error in its position, and every
\* well-formed event, before or after it, is yielded in arrival order.
C24_MalformedYieldsError ==
    /\ \A j \in 1..sse.pos :
           /\ MalformedLiteral(sse.source[j]) => YieldsSerialization(j)
           /\ WellFormed(sse.source[j]) => YieldsEvent(j)
    /\ InArrivalOrder
\* C24 (amended): the same for every consumed event whose payload is neither
\* [DONE] once surrounding whitespace is trimmed nor valid JSON; a sentinel with
\* whitespace around it is dropped like the sentinel.
C24_MalformedTrimmedYieldsError ==
    /\ \A j \in 1..sse.pos :
           /\ MalformedTrimmed(sse.source[j]) => YieldsSerialization(j)
           /\ WellFormed(sse.source[j]) => YieldsEvent(j)
    /\ InArrivalOrder
\* C24 witness: a malformed event was answered with a Serialization error and
\* the well-formed event after it was yielded
C24_Witness ==
    /\ sse.pos >= 2
    /\ MalformedTrimmed(sse.source[1])
    /\ WellFormed(sse.source[2])
    /\ Len(sse.yielded) >= 2
    /\ sse.yielded[1].item.error.variant = "Serialization"
    /\ sse.yielded[2].item.ok

\* a transport item that reports the failure of the connection
ConnectionFailure(item) == ~item.ok /\ item.error.kind = "Transport"

\* C25 (as claimed): a connection-level failure while the stream is consumed
\* yields exactly one Network error item and the stream yields no item after it.
C25_FailureTerminates ==
    \A j \in 1..sse.pos :
        ConnectionFailure(sse.source[j]) =>
            /\ Cardinality(ItemsAt(j)) = 1
            /\ \A i \in ItemsAt(j) : /\ ~sse.yielded[i].item.ok
                                     /\ sse.yielded[i].item.error.variant = "Network"
            /\ \A i \in 1..Len(sse.yielded) : sse.yielded[i].at <= j

(***************************************************************************)
(* The duration a Timeout error reports (checked under SpecClassify).      *)
(***************************************************************************)
\* C26 (as claimed): a Timeout error made from a timed-out transport call
\* carries duration_ms = timeout_seconds * 1000 of the client's configuration.
C26_TimeoutCarriesConfigured ==
    \A i \in 1..Len(classified) :
        (~classified[i].ok /\ classified[i].error.variant = "Timeout") =>
            classified[i].error.duration_ms =
                classified_by[i].auth_config.timeout_seconds * 1000

(***************************************************************************)
(* The order of attempts and sleeps in retry_with_backoff (checked under   *)
(* Spec).                                                                  *)
(***************************************************************************)
\* the delays delay_for_attempt(n) can return for this configuration
DelaysFor(n) ==
    {delay_for_attempt(retry_config, U32(FALSE, n), f) : f \in JitterFactors}

\* what holds of every state of a retry_with_backoff call
C27_State ==
    /\ Cardinality(in_flight) <= 1
    /\ pc = "awaiting" =>
           /\ in_flight = {invocations}
           /\ invocations = attempt + 1
           /\ sleeps = attempt
           /\ sleeping_for = None
           /\ result = None
    /\ pc # "awaiting" => in_flight = {}
    /\ pc = "sleeping" =>
           /\ invocations = attempt + 1
           /\ sleeps = attempt
           /\ last_error # None /\ is_retryable(last_error[1])
           /\ result = None
           /\ sleeping_for # None /\ sleeping_for[1] \in DelaysFor(attempt)
    /\ pc = "retry_loop" =>
           /\ invocations = attempt
           /\ sleeps = attempt
           /\ sleeping_for = None
    /\ invocations = 0 => sleeps = 0
    /\ pc = "done" => sleeping_for = None
    /\ (pc = "done" /\ RetryWrapped) => sleeps = invocations - 1
\* what holds of every step of a retry_with_backoff call
C27_Step ==
    \* an invocation starts: none is in flight, it is the next one, every
    \* earlier one has returned a retryable error and been slept after
    /\ (in_flight' # in_flight /\ in_flight' # {}) =>
           /\ in_flight = {}
           /\ invocations' = invocations + 1
           /\ in_flight' = {invocations'}
           /\ sleeps = invocations
           /\ sleeping_for = None
           /\ invocations > 0 => (last_error # None /\ is_retryable(last_error[1]))
    \* a sleep starts: the invocation before it has just returned
    /\ (sleeping_for = None /\ sleeping_for' # None) =>
           /\ in_flight = {invocations}
           /\ in_flight' = {}
           /\ invocations' = invocations
    \* a sleep completes: nothing was invoked during it
    /\ sleeps' # sleeps =>
           /\ sleeps' = sleeps + 1
           /\ sleeping_for # None
           /\ in_flight = {} /\ in_flight' = {}
           /\ invocations' = invocations
\* C27: the attempts of one retry_with_backoff call are strictly sequential.
\* At most one invocation of the operation is in flight; invocation n+1 starts
\* only when invocation n has returned a retryable error and the sleep of
\* delay_for_attempt(n) after it has completed, and no invocation starts
\* during a sleep; no sleep precedes the first invocation or follows the last,
\* so a finished call has slept one time less than it invoked the operation.
C27_SequentialAttempts == []C27_State /\ [][C27_Step]_vars
\* C27 witness: the third invocation of a call is in flight, after two
\* invocations that returned retryable errors and two completed sleeps
C27_Witness ==
    /\ op = "retry_with_backoff"
    /\ pc = "awaiting"
    /\ in_flight = {3}
    /\ invocations = 3
    /\ sleeps = 2
    /\ last_error # None /\ is_retryable(last_error[1])

(***************************************************************************)
(* The path after the loop of retry_with_backoff (checked under Spec).     *)
(***************************************************************************)
\* C29: retry_with_backoff returns from inside its loop: the loop variable
\* never passes max_retries, so the path after the loop is not taken, and no
\* call returns the Network error "All retry attempts failed".
C29_FallbackUnreachable ==
    /\ attempt <= retry_config.max_retries
    /\ pc = "retry_loop" => result = None
    /\ result # None => result[1] # Err(AllRetryAttemptsFailed)
\* C29 witness: with a budget of two retries, a call whose every attempt
\* failed retryably returned from the last iteration of its loop
C29_Witness ==
    /\ op = "retry_with_backoff"
    /\ pc = "done"
    /\ retry_config.max_retries = 2
    /\ attempt = retry_config.max_retries
    /\ invocations = retry_config.max_retries + 1
    /\ ~result[1].ok
    /\ is_retryable(result[1].error)

(***************************************************************************)
(* The limiter in chat_completion (checked under Spec).                    *)
(***************************************************************************)
\* C30: chat_completion awaits the rate limiter once per call, before its first
\* attempt, however many attempts follow: never for a retry, and not at all
\* when the client holds no limiter.
C30_LimiterOncePerCall ==
    op = "chat_completion" =>
        acquired = (IF rate_limiter # None THEN 1 ELSE 0)
\* C30 witness: a rate-limited chat_completion made three attempts on one
\* acquisition
C30_Witness ==
    /\ op = "chat_completion"
    /\ rate_limiter # None
    /\ pc = "done"
    /\ invocations = 3
    /\ sleeps = 2
    /\ acquired = 1

(***************************************************************************)
(* The credentials of a client (checked under Spec).                       *)
(***************************************************************************)
\* a client was returned by with_config
ClientExists == mode = "pipeline" /\ pc # "refused"
\* the credential invariant: a non-empty key that starts with "ra-" and a base
\* URL that parses
CredentialInvariant ==
    /\ auth_config.api_key # <<>>
    /\ starts_with(auth_config.api_key, KeyPrefix)
    /\ ~url_parse_is_err(auth_config.base_url)
    /\ validate(auth_config).ok

\* C28: every client that exists satisfies the credential invariant at every
\* moment of its life: with_config returns a client only for a configuration
\* validate() accepts, and no operation on the client, with_retry_config and
\* the endpoint calls included, changes its auth configuration.
C28_CredentialInvariant ==
    /\ [](ClientExists => CredentialInvariant)
    /\ [][auth_config' = auth_config]_vars
\* C28 witness: a client that was given another retry configuration and has
\* completed an endpoint call holds valid credentials
C28_Witness ==
    /\ ClientExists
    /\ op = "make_request"
    /\ pc = "done"
    /\ retry_config.max_retries # auth_config.max_retries
    /\ CredentialInvariant

====
